---------------------------- MODULE Spec2Model ----------------------------
(***************************************************************************)
(* Model of the Payroll Indonesia form scripts.                            *)
(*                                                                         *)
(* The BPJS Payment Summary form exists in two versions of its script:     *)
(*   - the rebuild version (src/unnamed/part_002, same logic as part_004): *)
(*     the component table is cleared and rebuilt from the employee        *)
(*     detail rows;                                                        *)
(*   - the upsert version (doctype/bpjs_payment_summary/                   *)
(*     bpjs_payment_summary.js): an existing component row is updated in   *)
(*     place and a missing one is created.                                 *)
(*                                                                         *)
(* An earlier script of the same form (src/unnamed/part_003) validates     *)
(* less and adds the employee amounts to the total.  The module also       *)
(* models the PPh TER Table form (doctype/pph_ter_table/pph_ter_table.js), *)
(* the Salary Slip buttons (public/js/salary_slip.js) and the period check *)
(* of the Payroll Entry form (public/js/payroll_entry.js).  Each form has  *)
(* its own specification; frm is the document of the form at hand.         *)
(*                                                                         *)
(* Money amounts are integers counting tenths of a currency unit, so the   *)
(* tolerance 0.1 of the reconciliation is the integer TOLERANCE.  A        *)
(* numeric field that was never set reads as 0 (frappe.utils.flt).         *)
(***************************************************************************)
EXTENDS Integers, Sequences, FiniteSets, TLC

VARIABLES
    frm,        \* the form of one session: the document's fields and what
                \* the last handler reported (frappe.validated, msgprint,
                \* show_alert)
    lastOp,     \* the handler that ran last
    server,     \* the server's side: the settlement (payment entries),
                \* the salary slips
    sess        \* per browser session: its copy of the document and its
                \* buttons, dialogs and requests in flight

vars == <<frm, lastOp, server, sess>>

---------------------------------------------------------------------------
(* Bounds of the model *)

MaxKomponen == 2    \* rows of the component table
MaxAccounts == 2    \* rows of the account details table
MaxEmployees == 2   \* rows of the employee details table

(* Program constants *)

TOLERANCE == 1      \* 0.1 currency unit, in tenths (Math.abs(..) > 0.1)
MONTH_MIN == 1
MONTH_MAX == 12

(* Inputs the user can type *)

KomponenAmounts == {0, 3}
AccountAmounts == {0, 2, 3}
EmployeeAmounts == {0, 2}
Months == {0, 1, 13}           \* 0: the field is empty
Years == {0, 2025}             \* 0: the field is empty

Categories == {"JHT", "JP", "JKK", "JKM", "Kesehatan"}
ComponentName(c) == IF c = "JHT" THEN "BPJS JHT"
                    ELSE IF c = "JP" THEN "BPJS JP"
                    ELSE IF c = "JKK" THEN "BPJS JKK"
                    ELSE IF c = "JKM" THEN "BPJS JKM"
                    ELSE "BPJS Kesehatan"
ComponentNames == {ComponentName(c) : c \in Categories}

---------------------------------------------------------------------------
(* Helpers on sequences *)

Abs(x) == IF x < 0 THEN -x ELSE x

RemoveAt(s, i) == [j \in 1..(Len(s) - 1) |-> IF j < i THEN s[j] ELSE s[j + 1]]

\* let t = 0; rows.forEach(d => t += flt(d.amount))
RECURSIVE SumAmounts(_)
SumAmounts(rows) ==
    IF rows = <<>> THEN 0
    ELSE SumAmounts(SubSeq(rows, 1, Len(rows) - 1)) + rows[Len(rows)].amount

\* let t = 0; rows.forEach(d => t += flt(d[k]))
RECURSIVE SumField(_, _)
SumField(rows, k) ==
    IF rows = <<>> THEN 0
    ELSE SumField(SubSeq(rows, 1, Len(rows) - 1), k) + rows[Len(rows)][k]

\* the rows of a component table that carry a component name
RowsOf(rows, component) ==
    {i \in 1..Len(rows) : rows[i].component = component}

---------------------------------------------------------------------------
(* Rebuild version of the BPJS Payment Summary form (part_002)             *)

\* MismatchDetected with the tolerance itself reported as a mismatch
MismatchDetected_inclusive(f, account_total) ==
    /\ f.total # 0
    /\ account_total > 0
    /\ Abs(f.total - account_total) >= TOLERANCE

\* the guard of the mismatch warning, given the summed account details
MismatchDetected(f, account_total) ==
    /\ f.total # 0
    /\ account_total > 0
    /\ Abs(f.total - account_total) > TOLERANCE

\* calculate_account_details_total summing onto the stored account_total
calculate_account_details_total_accumulating(f) ==
    LET account_total == f.account_total + SumAmounts(f.account_details) IN
    IF MismatchDetected(f, account_total)
    THEN [f EXCEPT !.account_total =
                        IF f.has_account_total THEN account_total ELSE @,
                   !.alert = TRUE]
    ELSE f

calculate_account_details_total(f) ==
    LET account_total == SumAmounts(f.account_details) IN
    IF MismatchDetected(f, account_total)
    THEN [f EXCEPT !.account_total =
                        IF f.has_account_total THEN account_total ELSE @,
                   !.alert = TRUE]
    ELSE f

calculate_total(f) ==
    calculate_account_details_total(
        [f EXCEPT !.total = SumAmounts(f.komponen)])

MonthNames == <<"Januari", "Februari", "Maret", "April", "Mei", "Juni", "Juli",
                "Agustus", "September", "Oktober", "November", "Desember">>

\* sets month_name and month_year_title (a pair: month name, year)
updateMonthName(f) ==
    IF f.month = 0 \/ f.year = 0 THEN f
    ELSE IF f.month >= MONTH_MIN /\ f.month <= MONTH_MAX
         THEN [f EXCEPT !.month_name = MonthNames[f.month],
                        !.month_year_title = <<MonthNames[f.month], f.year>>]
         ELSE f

\* calculate_employee_totals that leaves the employer's share out of JHT
RECURSIVE calculate_employee_totals_employee_side(_)
calculate_employee_totals_employee_side(rows) ==
    IF rows = <<>>
    THEN [jht_total |-> 0, jp_total |-> 0, kesehatan_total |-> 0,
          jkk_total |-> 0, jkm_total |-> 0]
    ELSE LET t == calculate_employee_totals_employee_side(
                        SubSeq(rows, 1, Len(rows) - 1))
             d == rows[Len(rows)]
         IN [jht_total |-> t.jht_total + d.jht_employee,
             jp_total |-> t.jp_total + d.jp_employee + d.jp_employer,
             kesehatan_total |-> t.kesehatan_total + d.kesehatan_employee
                                  + d.kesehatan_employer,
             jkk_total |-> t.jkk_total + d.jkk,
             jkm_total |-> t.jkm_total + d.jkm]

\* one pass of employee_details.forEach, accumulating the five totals
RECURSIVE calculate_employee_totals(_)
calculate_employee_totals(rows) ==
    IF rows = <<>>
    THEN [jht_total |-> 0, jp_total |-> 0, kesehatan_total |-> 0,
          jkk_total |-> 0, jkm_total |-> 0]
    ELSE LET t == calculate_employee_totals(SubSeq(rows, 1, Len(rows) - 1))
             d == rows[Len(rows)]
         IN [jht_total |-> t.jht_total + d.jht_employee + d.jht_employer,
             jp_total |-> t.jp_total + d.jp_employee + d.jp_employer,
             kesehatan_total |-> t.kesehatan_total + d.kesehatan_employee
                                  + d.kesehatan_employer,
             jkk_total |-> t.jkk_total + d.jkk,
             jkm_total |-> t.jkm_total + d.jkm]

\* if (amount > 0) { row = frm.add_child('komponen'); ... }
AddChildIfPositive(rows, component, amount) ==
    IF amount > 0
    THEN Append(rows, [component |-> component, amount |-> amount])
    ELSE rows

\* the table after frm.clear_table('komponen') and the five conditional rows
RebuiltKomponen(totals) ==
    LET r1 == AddChildIfPositive(<<>>, "BPJS JHT", totals.jht_total)
        r2 == AddChildIfPositive(r1, "BPJS JP", totals.jp_total)
        r3 == AddChildIfPositive(r2, "BPJS JKK", totals.jkk_total)
        r4 == AddChildIfPositive(r3, "BPJS JKM", totals.jkm_total)
    IN AddChildIfPositive(r4, "BPJS Kesehatan", totals.kesehatan_total)

\* update_components_from_employees without frm.clear_table('komponen')
update_components_from_employees_appending(f) ==
    IF f.employee_details = <<>> THEN f
    ELSE calculate_total(
            [f EXCEPT !.komponen = @ \o
                RebuiltKomponen(calculate_employee_totals(f.employee_details)),
                      !.komponen_set = TRUE])

update_components_from_employees(f) ==
    IF f.employee_details = <<>> THEN f
    ELSE calculate_total(
            [f EXCEPT !.komponen =
                RebuiltKomponen(calculate_employee_totals(f.employee_details)),
                      !.komponen_set = TRUE])

\* validate without the check that components exist
validate_without_components_check(f) ==
    IF f.month = 0 \/ f.year = 0
    THEN [f EXCEPT !.msg = "Missing Required Fields", !.validated = FALSE]
    ELSE IF f.month < MONTH_MIN \/ f.month > MONTH_MAX
    THEN [f EXCEPT !.msg = "Invalid Month", !.validated = FALSE]
    ELSE LET g == calculate_total(f) IN
         IF g.account_details = <<>>
         THEN [g EXCEPT !.msg = "Missing Account Details"]
         ELSE g

\* BPJS Payment Summary.validate
validate(f) ==
    IF f.month = 0 \/ f.year = 0
    THEN [f EXCEPT !.msg = "Missing Required Fields", !.validated = FALSE]
    ELSE IF f.month < MONTH_MIN \/ f.month > MONTH_MAX
    THEN [f EXCEPT !.msg = "Invalid Month", !.validated = FALSE]
    ELSE LET g == calculate_total(f) IN
         IF g.komponen = <<>>
         THEN [g EXCEPT !.msg = "Missing Components", !.validated = FALSE]
         ELSE IF g.account_details = <<>>
         THEN [g EXCEPT !.msg = "Missing Account Details"]
         ELSE g

---------------------------------------------------------------------------
(* The form as an event starts: frappe.validated is true and nothing has   *)
(* been reported yet.                                                      *)
Fresh(f) == [f EXCEPT !.validated = TRUE, !.msg = "none", !.alert = FALSE]

BlankKomponen == [component |-> "", amount |-> 0]
BlankAccount == [amount |-> 0]
BlankEmployee == [jht_employee |-> 0, jht_employer |-> 0,
                  jp_employee |-> 0, jp_employer |-> 0,
                  kesehatan_employee |-> 0, kesehatan_employer |-> 0,
                  jkk |-> 0, jkm |-> 0]
\* the fields the model's user edits: both sides of one combined category,
\* one side of another, and the two employer-only categories; the JP
\* figures of every row stay 0
EmployeeFields == {"jht_employee", "jht_employer", "kesehatan_employer",
                   "jkk", "jkm"}

NewForm(has_account_total) ==
    [month |-> 0, year |-> 0, month_name |-> "", month_year_title |-> <<>>,
     komponen |-> <<>>, account_details |-> <<>>, employee_details |-> <<>>,
     \* whether frm.doc.komponen / frm.doc.employee_details is an array yet
     \* (a new document has none until a row is added) or still undefined
     komponen_set |-> FALSE, employee_details_set |-> FALSE,
     total |-> 0, account_total |-> 0,
     has_account_total |-> has_account_total,
     docstatus |-> 0,
     validated |-> TRUE, msg |-> "none", alert |-> FALSE]

(* Handlers of the component table *)

komponen_add ==
    /\ frm.docstatus = 0
    /\ Len(frm.komponen) < MaxKomponen
    /\ frm' = calculate_total(
                [Fresh(frm) EXCEPT !.komponen = Append(@, BlankKomponen),
                                   !.komponen_set = TRUE])
    /\ lastOp' = "komponen_add"
    /\ UNCHANGED <<server, sess>>

komponen_component ==
    /\ frm.docstatus = 0
    /\ \E i \in 1..Len(frm.komponen), c \in ComponentNames :
          frm' = [Fresh(frm) EXCEPT !.komponen[i].component = c]
    /\ lastOp' = "komponen_component"
    /\ UNCHANGED <<server, sess>>

komponen_amount ==
    /\ frm.docstatus = 0
    /\ \E i \in 1..Len(frm.komponen), v \in KomponenAmounts :
          frm' = calculate_total(
                    [Fresh(frm) EXCEPT !.komponen[i].amount = v])
    /\ lastOp' = "komponen_amount"
    /\ UNCHANGED <<server, sess>>

\* komponen_remove that does not recalculate the total
komponen_remove_without_total ==
    /\ frm.docstatus = 0
    /\ \E i \in 1..Len(frm.komponen) :
          frm' = [Fresh(frm) EXCEPT !.komponen = RemoveAt(@, i)]
    /\ lastOp' = "komponen_remove"
    /\ UNCHANGED <<server, sess>>

komponen_remove ==
    /\ frm.docstatus = 0
    /\ \E i \in 1..Len(frm.komponen) :
          frm' = calculate_total(
                    [Fresh(frm) EXCEPT !.komponen = RemoveAt(@, i)])
    /\ lastOp' = "komponen_remove"
    /\ UNCHANGED <<server, sess>>

(* Handlers of the account details table *)

account_details_add ==
    /\ frm.docstatus = 0
    /\ Len(frm.account_details) < MaxAccounts
    /\ frm' = calculate_account_details_total(
                [Fresh(frm) EXCEPT !.account_details = Append(@, BlankAccount)])
    /\ lastOp' = "account_details_add"
    /\ UNCHANGED <<server, sess>>

account_details_amount ==
    /\ frm.docstatus = 0
    /\ \E i \in 1..Len(frm.account_details), v \in AccountAmounts :
          frm' = calculate_account_details_total(
                    [Fresh(frm) EXCEPT !.account_details[i].amount = v])
    /\ lastOp' = "account_details_amount"
    /\ UNCHANGED <<server, sess>>

account_details_remove ==
    /\ frm.docstatus = 0
    /\ \E i \in 1..Len(frm.account_details) :
          frm' = calculate_account_details_total(
                    [Fresh(frm) EXCEPT !.account_details = RemoveAt(@, i)])
    /\ lastOp' = "account_details_remove"
    /\ UNCHANGED <<server, sess>>

(* Handlers of the employee details table *)

employee_details_add ==
    /\ frm.docstatus = 0
    /\ Len(frm.employee_details) < MaxEmployees
    /\ frm' = update_components_from_employees(
                [Fresh(frm) EXCEPT !.employee_details = Append(@, BlankEmployee),
                                   !.employee_details_set = TRUE])
    /\ lastOp' = "employee_details_add"
    /\ UNCHANGED <<server, sess>>

employee_details_field ==
    /\ frm.docstatus = 0
    /\ \E i \in 1..Len(frm.employee_details), k \in EmployeeFields,
          v \in EmployeeAmounts :
          frm' = update_components_from_employees(
                    [Fresh(frm) EXCEPT !.employee_details[i][k] = v])
    /\ lastOp' = "employee_details_field"
    /\ UNCHANGED <<server, sess>>

employee_details_remove ==
    /\ frm.docstatus = 0
    /\ \E i \in 1..Len(frm.employee_details) :
          frm' = update_components_from_employees(
                    [Fresh(frm) EXCEPT !.employee_details = RemoveAt(@, i)])
    /\ lastOp' = "employee_details_remove"
    /\ UNCHANGED <<server, sess>>

(* Document fields *)

month ==
    /\ frm.docstatus = 0
    /\ \E m \in Months : frm' = updateMonthName([Fresh(frm) EXCEPT !.month = m])
    /\ lastOp' = "month"
    /\ UNCHANGED <<server, sess>>

year ==
    /\ frm.docstatus = 0
    /\ \E y \in Years : frm' = updateMonthName([Fresh(frm) EXCEPT !.year = y])
    /\ lastOp' = "year"
    /\ UNCHANGED <<server, sess>>

\* saving a draft runs the validate handler
Validate ==
    /\ frm.docstatus = 0
    /\ frm' = validate(Fresh(frm))
    /\ lastOp' = "validate"
    /\ UNCHANGED <<server, sess>>

\* the server's side: the document's payment_entry (0: none), the payment
\* entries created and the calls of generate_payment_entry so far
NoSettlement == [doctype |-> "BPJS Payment Summary", payment_entry |-> 0,
                 pulled |-> 0,
                 created |-> 0, invoked |-> 0]

(* A new draft *)
InitForm ==
    /\ \E h \in BOOLEAN : frm = NewForm(h)
    /\ lastOp = "init"
    /\ server = NoSettlement
    /\ sess = <<>>

(* Reconciliation: the component table against the account details *)
NextRecon ==
    \/ komponen_add
    \/ komponen_amount
    \/ komponen_remove
    \/ account_details_add
    \/ account_details_amount
    \/ account_details_remove

SpecRecon == InitForm /\ [][NextRecon]_vars

(* Saving: a draft whose account details were set (or not) before, its     *)
(* period, its components, and validate                                    *)
InitValidate ==
    /\ \E h \in BOOLEAN, a \in {<<>>, <<[amount |-> 2]>>} :
          frm = [NewForm(h) EXCEPT !.account_details = a]
    /\ lastOp = "init"
    /\ server = NoSettlement
    /\ sess = <<>>

NextValidate ==
    \/ month
    \/ year
    \/ komponen_add
    \/ komponen_amount
    \/ komponen_remove
    \/ Validate

SpecValidate == InitValidate /\ [][NextValidate]_vars

(* Aggregation: the employee details and the components derived from      *)
(* them, on a draft that may already hold a component row typed by hand    *)
InitAgg ==
    /\ \E k \in {<<>>, <<[component |-> "BPJS JP", amount |-> 3]>>} :
          frm = calculate_total([NewForm(TRUE) EXCEPT !.komponen = k,
                                                   !.komponen_set = (k # <<>>)])
    /\ lastOp = "init"
    /\ server = NoSettlement
    /\ sess = <<>>

NextAgg ==
    \/ employee_details_add
    \/ employee_details_field
    \/ employee_details_remove

SpecAgg == InitAgg /\ [][NextAgg]_vars

---------------------------------------------------------------------------
(* Upsert version of the BPJS Payment Summary form                         *)
(* (doctype/bpjs_payment_summary/bpjs_payment_summary.js).  An employee    *)
(* detail row carries one figure per category.  frappe.model.set_value     *)
(* runs the field's handler when it changes the value, before it returns.  *)

BlankEmployee_upsert == [bpjs_kesehatan |-> 0, bpjs_jht |-> 0, bpjs_jp |-> 0,
                         bpjs_jkk |-> 0, bpjs_jkm |-> 0, amount |-> 0]
\* the category figure the model's user edits; the others stay 0
EmployeeFields_upsert == {"bpjs_jht"}
\* the component name the model's user types into a component row
ComponentNames_upsert == {"BPJS JHT"}

\* for (i = 0; i < komponen.length; i++) if (component === name) ... break
FirstRow(rows, component) ==
    IF RowsOf(rows, component) = {} THEN 0
    ELSE CHOOSE i \in RowsOf(rows, component) :
            \A j \in RowsOf(rows, component) : i <= j

RECURSIVE calculate_total_upsert(_)
RECURSIVE calculate_employee_totals_upsert(_)
RECURSIVE update_component_row(_, _, _)

\* the helper without the search for an existing row
update_component_row_appending(f, component_name, amount) ==
    IF amount > 0
    THEN [f EXCEPT !.komponen =
            Append(@, [component |-> component_name, amount |-> amount])]
    ELSE f

update_component_row(f, component_name, amount) ==
    LET i == FirstRow(f.komponen, component_name) IN
    IF i # 0
    THEN IF f.komponen[i].amount = amount THEN f
         ELSE calculate_total_upsert([f EXCEPT !.komponen[i].amount = amount])
    ELSE IF amount > 0
    THEN [f EXCEPT !.komponen =
            Append(@, [component |-> component_name, amount |-> amount])]
    ELSE f

calculate_employee_totals_upsert(f) ==
    IF ~f.employee_details_set \/ ~f.komponen_set THEN f
    ELSE LET rows == f.employee_details
             f1 == update_component_row(f, "BPJS Kesehatan",
                                        SumField(rows, "bpjs_kesehatan"))
             f2 == update_component_row(f1, "BPJS JHT", SumField(rows, "bpjs_jht"))
             f3 == update_component_row(f2, "BPJS JP", SumField(rows, "bpjs_jp"))
             f4 == update_component_row(f3, "BPJS JKK", SumField(rows, "bpjs_jkk"))
         IN update_component_row(f4, "BPJS JKM", SumField(rows, "bpjs_jkm"))

calculate_total_upsert(f) ==
    LET total == SumAmounts(f.komponen)
        g == IF f.employee_details_set
             THEN calculate_employee_totals_upsert(f) ELSE f
    IN [g EXCEPT !.total = total]

komponen_add_upsert ==
    /\ Len(frm.komponen) < MaxKomponen
    /\ frm' = calculate_total_upsert(
                [Fresh(frm) EXCEPT !.komponen = Append(@, BlankKomponen),
                                   !.komponen_set = TRUE])
    /\ lastOp' = "komponen_add"
    /\ UNCHANGED <<server, sess>>

komponen_amount_upsert ==
    /\ \E i \in 1..Len(frm.komponen), v \in KomponenAmounts :
          /\ v # frm.komponen[i].amount
          /\ frm' = calculate_total_upsert(
                        [Fresh(frm) EXCEPT !.komponen[i].amount = v])
    /\ lastOp' = "komponen_amount"
    /\ UNCHANGED <<server, sess>>

\* BPJS Payment Component.component: only the description is filled in
komponen_component_upsert ==
    /\ \E i \in 1..Len(frm.komponen), c \in ComponentNames_upsert :
          /\ c # frm.komponen[i].component
          /\ frm' = [Fresh(frm) EXCEPT !.komponen[i].component = c]
    /\ lastOp' = "komponen_component"
    /\ UNCHANGED <<server, sess>>

komponen_remove_upsert ==
    /\ \E i \in 1..Len(frm.komponen) :
          frm' = calculate_total_upsert(
                    [Fresh(frm) EXCEPT !.komponen = RemoveAt(@, i)])
    /\ lastOp' = "komponen_remove"
    /\ UNCHANGED <<server, sess>>

employee_details_add_upsert ==
    /\ Len(frm.employee_details) < MaxEmployees
    /\ frm' = calculate_employee_totals_upsert(
                [Fresh(frm) EXCEPT
                    !.employee_details = Append(@, BlankEmployee_upsert),
                    !.employee_details_set = TRUE])
    /\ lastOp' = "employee_details_add"
    /\ UNCHANGED <<server, sess>>

\* a category figure of a row is edited: the script has no handler for it
employee_details_figure_upsert ==
    /\ \E i \in 1..Len(frm.employee_details), k \in EmployeeFields_upsert,
          v \in EmployeeAmounts :
          /\ v # frm.employee_details[i][k]
          /\ frm' = [Fresh(frm) EXCEPT !.employee_details[i][k] = v]
    /\ lastOp' = "employee_details_figure"
    /\ UNCHANGED <<server, sess>>

employee_details_amount_upsert ==
    /\ \E i \in 1..Len(frm.employee_details), v \in EmployeeAmounts :
          /\ v # frm.employee_details[i].amount
          /\ frm' = calculate_employee_totals_upsert(
                        [Fresh(frm) EXCEPT !.employee_details[i].amount = v])
    /\ lastOp' = "employee_details_amount"
    /\ UNCHANGED <<server, sess>>

employee_details_remove_upsert ==
    /\ \E i \in 1..Len(frm.employee_details) :
          frm' = calculate_employee_totals_upsert(
                    [Fresh(frm) EXCEPT !.employee_details = RemoveAt(@, i)])
    /\ lastOp' = "employee_details_remove"
    /\ UNCHANGED <<server, sess>>

Validate_upsert ==
    /\ frm' = calculate_total_upsert(Fresh(frm))
    /\ lastOp' = "validate"
    /\ UNCHANGED <<server, sess>>

(* A draft: new (its tables still undefined) or loaded with empty tables *)
InitUpsert ==
    /\ \E loaded \in BOOLEAN :
          frm = [NewForm(FALSE) EXCEPT !.komponen_set = loaded,
                                       !.employee_details_set = loaded]
    /\ lastOp = "init"
    /\ server = NoSettlement
    /\ sess = <<>>

NextUpsert ==
    \/ komponen_add_upsert
    \/ komponen_amount_upsert
    \/ komponen_component_upsert
    \/ komponen_remove_upsert
    \/ employee_details_add_upsert
    \/ employee_details_figure_upsert
    \/ employee_details_amount_upsert
    \/ employee_details_remove_upsert
    \/ Validate_upsert

SpecUpsert == InitUpsert /\ [][NextUpsert]_vars

---------------------------------------------------------------------------
(* Settlement: the Create / Generate Payment Entry button of a submitted   *)
(* BPJS Payment Summary (part_002) or PPh TER Table (pph_ter_table.js).    *)
(* Each browser session holds its own copy of the document; the buttons of *)
(* a form are those its last refresh drew from that copy.  The server's    *)
(* generate_payment_entry is not part of the scripts: it is modelled as    *)
(* the gate of the specification (an existing reference is returned, else  *)
(* one payment entry is created), with no mutual exclusion of its own.     *)

MaxSessions == 2        \* browser sessions on the one document
MaxInvocations == 3     \* calls of generate_payment_entry the model follows
MaxPulls == 2           \* pulls from the salary slips the model follows

Sessions == 1..MaxSessions
Doctypes == {"BPJS Payment Summary", "PPh TER Table"}

\* the create button without the test of payment_entry
CreateButton_whenever_submitted(docstatus, payment_entry) == docstatus = 1

\* what refresh draws from a copy of the document
CreateButton(docstatus, payment_entry) == docstatus = 1 /\ payment_entry = 0
ViewButton(doctype, docstatus, payment_entry) ==
    IF doctype = "BPJS Payment Summary"
    THEN docstatus = 1 /\ payment_entry # 0
    ELSE payment_entry # 0

\* the buttons of a draft that pull or regenerate its lines
DataButtons(docstatus) == docstatus = 0

\* the refresh handler of session s
Refreshed(ss, doctype) ==
    [ss EXCEPT !.create_button = CreateButton(ss.docstatus, ss.payment_entry),
               !.view_button = ViewButton(doctype, ss.docstatus, ss.payment_entry),
               !.data_buttons = DataButtons(ss.docstatus),
               !.route = "Form"]

NewSession(doctype, docstatus) ==
    Refreshed([docstatus |-> docstatus, payment_entry |-> 0,
               create_button |-> FALSE, view_button |-> FALSE,
               data_buttons |-> FALSE, fetch |-> "none",
               dialog |-> FALSE, call |-> "none", response |-> 0,
               \* the answer of the last supplier check and the message shown
               supplier |-> "unknown", msg |-> "none",
               route |-> "Form"], doctype)

\* the framework saves and submits the draft: validate runs, and a document
\* it did not reject becomes docstatus 1
Submit ==
    /\ frm.docstatus = 0
    /\ LET f == validate(Fresh(frm)) IN
          frm' = IF f.validated THEN [f EXCEPT !.docstatus = 1] ELSE f
    /\ lastOp' = "validate"
    /\ UNCHANGED <<server, sess>>

\* the form of session s is loaded again from the server, and refreshed
Load(s) ==
    /\ sess[s].call = "none"
    /\ sess[s].fetch = "none"
    /\ ~sess[s].dialog
    /\ sess' = [sess EXCEPT ![s] =
                  Refreshed([@ EXCEPT !.docstatus = frm.docstatus,
                                      !.payment_entry = server.payment_entry],
                            server.doctype)]
    /\ lastOp' = "load"
    /\ UNCHANGED <<frm, server>>

\* refresh of the form of session s, on the copy it holds
refresh(s) ==
    /\ sess[s].call = "none"
    /\ sess[s].fetch = "none"
    /\ ~sess[s].dialog
    /\ sess' = [sess EXCEPT ![s] = Refreshed(@, server.doctype)]
    /\ lastOp' = "refresh"
    /\ UNCHANGED <<frm, server>>

\* the button's click handler: frappe.confirm
create_payment_entry(s) ==
    /\ sess[s].route = "Form"
    /\ sess[s].create_button
    /\ sess[s].call = "none"
    /\ sess[s].fetch = "none"
    /\ ~sess[s].dialog
    /\ server.invoked < MaxInvocations
    /\ sess' = [sess EXCEPT ![s].dialog = TRUE, ![s].supplier = "unknown",
                            ![s].msg = "none"]
    /\ lastOp' = "create_payment_entry"
    /\ UNCHANGED <<frm, server>>

\* the user answers the confirmation; on yes the BPJS form sends the call,
\* the PPh form first asks whether the supplier exists
confirm(s) ==
    /\ sess[s].dialog
    /\ \E yes \in BOOLEAN :
          sess' = [sess EXCEPT
                      ![s].dialog = FALSE,
                      ![s].call = IF ~yes THEN "none"
                                  ELSE IF server.doctype = "PPh TER Table"
                                  THEN "exists"
                                  ELSE "sent"]
    /\ lastOp' = "confirm"
    /\ UNCHANGED <<frm, server>>

\* the check resolves and the call is sent whatever the answer
supplier_exists_unchecked(s) ==
    /\ sess[s].call = "exists"
    /\ \E exists \in BOOLEAN :
          sess' = [sess EXCEPT
                      ![s].call = "sent",
                      ![s].supplier = IF exists THEN "exists" ELSE "missing"]
    /\ lastOp' = "supplier_exists"
    /\ UNCHANGED <<frm, server>>

\* frappe.db.exists('Supplier', 'Kantor Pajak') resolves
supplier_exists(s) ==
    /\ sess[s].call = "exists"
    /\ \E exists \in BOOLEAN :
          sess' = [sess EXCEPT
                      ![s].call = IF exists THEN "sent" ELSE "none",
                      ![s].supplier = IF exists THEN "exists" ELSE "missing",
                      ![s].msg = IF exists THEN @ ELSE "supplier_missing"]
    /\ lastOp' = "supplier_exists"
    /\ UNCHANGED <<frm, server>>

\* generate_payment_entry starts on the server: the idempotency check
generate_payment_entry_check(s) ==
    /\ sess[s].call = "sent"
    /\ server' = [server EXCEPT !.invoked = @ + 1]
    /\ sess' = [sess EXCEPT
                  ![s].call = IF server.payment_entry # 0
                              THEN "response" ELSE "creating",
                  ![s].response = server.payment_entry]
    /\ lastOp' = "generate_payment_entry_check"
    /\ UNCHANGED frm

\* generate_payment_entry creates the payment entry and records it
generate_payment_entry_create(s) ==
    /\ sess[s].call = "creating"
    /\ server' = [server EXCEPT !.created = @ + 1,
                                !.payment_entry = server.created + 1]
    /\ sess' = [sess EXCEPT ![s].call = "response",
                            ![s].response = server.created + 1]
    /\ lastOp' = "generate_payment_entry_create"
    /\ UNCHANGED frm

\* the callback of the call: the document of the response replaces the
\* session's copy; the BPJS form refreshes; the route changes
callback(s) ==
    /\ sess[s].call = "response"
    /\ LET got == [sess[s] EXCEPT !.call = "none",
                                  !.payment_entry = sess[s].response]
       IN sess' = [sess EXCEPT ![s] =
                    IF got.response = 0 THEN got
                    ELSE [(IF server.doctype = "BPJS Payment Summary"
                           THEN Refreshed(got, server.doctype) ELSE got)
                            EXCEPT !.route = "Payment Entry"]]
    /\ lastOp' = "callback"
    /\ UNCHANGED <<frm, server>>

\* the framework cancels the submitted document
Cancel ==
    /\ frm.docstatus = 1
    /\ frm' = [frm EXCEPT !.docstatus = 2]
    /\ lastOp' = "cancel"
    /\ UNCHANGED <<server, sess>>

\* Ambil Data dari Salary Slip on a draft: fetchFromSalarySlip checks month
\* and year and asks for confirmation
fetchFromSalarySlip(s) ==
    /\ sess[s].route = "Form"
    /\ sess[s].data_buttons
    /\ sess[s].call = "none"
    /\ sess[s].fetch = "none"
    /\ ~sess[s].dialog
    /\ server.pulled < MaxPulls
    /\ sess' = [sess EXCEPT ![s].fetch =
                    IF frm.month = 0 \/ frm.year = 0 THEN "none" ELSE "dialog"]
    /\ lastOp' = "fetchFromSalarySlip"
    /\ UNCHANGED <<frm, server>>

\* the confirmation is answered; on yes frm.call sends get_from_salary_slip
fetch_confirm(s) ==
    /\ sess[s].fetch = "dialog"
    /\ \E yes \in BOOLEAN :
          sess' = [sess EXCEPT ![s].fetch = IF yes THEN "sent" ELSE "none"]
    /\ lastOp' = "fetch_confirm"
    /\ UNCHANGED <<frm, server>>

\* get_from_salary_slip on the server: the lines of the document are
\* generated again
get_from_salary_slip(s) ==
    /\ sess[s].fetch = "sent"
    /\ server' = [server EXCEPT !.pulled = @ + 1]
    /\ sess' = [sess EXCEPT ![s].fetch = "response"]
    /\ lastOp' = "get_from_salary_slip"
    /\ UNCHANGED frm

\* the callback: frm.reload_doc()
fetch_callback(s) ==
    /\ sess[s].fetch = "response"
    /\ sess' = [sess EXCEPT ![s] =
                  Refreshed([@ EXCEPT !.fetch = "none",
                                      !.docstatus = frm.docstatus,
                                      !.payment_entry = server.payment_entry],
                            server.doctype)]
    /\ lastOp' = "fetch_callback"
    /\ UNCHANGED <<frm, server>>

(* A BPJS Payment Summary draft that is about to be submitted, with or     *)
(* without account details, or a submitted PPh TER Table                   *)
InitSettle ==
    /\ \E d \in Doctypes, a \in {<<>>, <<[amount |-> 3]>>} :
          /\ frm = [calculate_total(
                      [NewForm(TRUE) EXCEPT
                          !.month = 1, !.year = 2025,
                          !.komponen = <<[component |-> "BPJS JHT", amount |-> 3]>>,
                          !.komponen_set = TRUE,
                          !.account_details =
                              IF d = "BPJS Payment Summary" THEN a ELSE <<>>])
                    EXCEPT !.alert = FALSE,
                           !.docstatus = IF d = "BPJS Payment Summary" THEN 0 ELSE 1]
          /\ server = [NoSettlement EXCEPT !.doctype = d]
          /\ sess = [s \in Sessions |-> NewSession(d, frm.docstatus)]
    /\ lastOp = "init"

NextSettle ==
    \/ Submit
    \/ Cancel
    \/ \E s \in Sessions :
          \/ Load(s)
          \/ fetchFromSalarySlip(s)
          \/ fetch_confirm(s)
          \/ get_from_salary_slip(s)
          \/ fetch_callback(s)
          \/ refresh(s)
          \/ create_payment_entry(s)
          \/ confirm(s)
          \/ supplier_exists(s)
          \/ generate_payment_entry_check(s)
          \/ generate_payment_entry_create(s)
          \/ callback(s)

SpecSettle == InitSettle /\ [][NextSettle]_vars

---------------------------------------------------------------------------
(* Properties of the rebuild version                                       *)

\* the fields of the document, without what the handlers report
DocFields(f) ==
    [month |-> f.month, year |-> f.year, month_name |-> f.month_name,
     month_year_title |-> f.month_year_title, komponen |-> f.komponen,
     account_details |-> f.account_details,
     employee_details |-> f.employee_details, total |-> f.total,
     account_total |-> f.account_total, docstatus |-> f.docstatus]

AccountSum == SumAmounts(frm.account_details)

\* the handlers that end in calculate_account_details_total
ReconcileOps == {"komponen_add", "komponen_amount", "komponen_remove",
                 "account_details_add", "account_details_amount",
                 "account_details_remove"}

PeriodValid ==
    /\ frm.month # 0
    /\ frm.year # 0
    /\ frm.month >= MONTH_MIN
    /\ frm.month <= MONTH_MAX

\* C3 as stated: a document passes validate only if some component row has
\* an amount greater than 0 (a document whose rows all have amount 0 is
\* rejected).
C3_PassesOnlyWithPositiveComponent ==
    (lastOp = "validate" /\ frm.validated)
        => \E i \in 1..Len(frm.komponen) : frm.komponen[i].amount > 0

\* C3 amended: a document passes validate only if its component table has
\* at least one row; with a valid period, it passes exactly when the table
\* has a row, whatever the amounts of the rows.
C3_PassesOnlyWithComponentRow ==
    lastOp = "validate" =>
        /\ frm.validated => frm.komponen # <<>>
        /\ (PeriodValid /\ frm.komponen # <<>>) => frm.validated

C3_Witness ==
    /\ lastOp = "validate"
    /\ PeriodValid
    /\ frm.komponen = <<>>
    /\ ~frm.validated
    /\ frm.msg = "Missing Components"

\* C5: a validate that rejects the document (missing month or year, month
\* outside 1..12, no components) leaves every field of the document as it
\* was before validate ran.
C5_RejectedValidateChangesNothing ==
    [][(lastOp' = "validate" /\ ~frm'.validated)
            => DocFields(frm') = DocFields(frm)]_vars

C5_Witness ==
    /\ lastOp = "validate"
    /\ ~frm.validated
    /\ frm.msg = "Missing Components"
    /\ frm.account_details # <<>>

\* C9 as stated: after a reconciliation, a mismatch has been reported
\* exactly when |components total - account details total| > 0.1.
C9_MismatchIffBeyondTolerance ==
    lastOp \in ReconcileOps =>
        (frm.alert <=> Abs(frm.total - AccountSum) > TOLERANCE)

\* C9 amended: after a reconciliation, a mismatch has been reported exactly
\* when the components total is not 0, the account details total is greater
\* than 0 and the two differ by more than 0.1; a difference of at most 0.1
\* is never reported.
C9_MismatchIffBothSetAndBeyondTolerance ==
    lastOp \in ReconcileOps =>
        /\ frm.alert <=> (/\ frm.total # 0
                          /\ AccountSum > 0
                          /\ Abs(frm.total - AccountSum) > TOLERANCE)
        /\ Abs(frm.total - AccountSum) <= TOLERANCE => ~frm.alert

C9_Witness ==
    /\ lastOp = "account_details_amount"
    /\ frm.total # 0
    /\ AccountSum > 0
    /\ Abs(frm.total - AccountSum) = TOLERANCE
    /\ ~frm.alert

\* C10: whatever amount the user types into an account detail row, the
\* reconciliation that follows leaves the component rows, the account
\* detail rows and the total as they were, and running it a second time
\* changes nothing more.
C10_ReconcileKeepsInputsAndRepeats ==
    \A i \in 1..Len(frm.account_details), v \in AccountAmounts :
        LET before == [Fresh(frm) EXCEPT !.account_details[i].amount = v]
            once == calculate_account_details_total(before)
            twice == calculate_account_details_total(once)
        IN /\ once.komponen = before.komponen
           /\ once.account_details = before.account_details
           /\ once.total = before.total
           /\ twice = once

C10_Witness ==
    /\ lastOp = "account_details_amount"
    /\ frm.alert
    /\ frm.has_account_total
    /\ frm.account_total = AccountSum
    /\ frm.komponen # <<>>

\* the handlers that run the aggregation of the employee details
AggregateOps == {"employee_details_add", "employee_details_field",
                 "employee_details_remove"}

\* the sum of one field over the employee detail rows, from the first row on
RECURSIVE FieldSum(_, _)
FieldSum(rows, k) ==
    IF rows = <<>> THEN 0 ELSE Head(rows)[k] + FieldSum(Tail(rows), k)

\* what each category owes: both sides for JHT, JP and Kesehatan, the
\* employer's figure alone for JKK and JKM
Owed(rows, c) ==
    IF c = "JHT" THEN FieldSum(rows, "jht_employee") + FieldSum(rows, "jht_employer")
    ELSE IF c = "JP" THEN FieldSum(rows, "jp_employee") + FieldSum(rows, "jp_employer")
    ELSE IF c = "Kesehatan"
    THEN FieldSum(rows, "kesehatan_employee") + FieldSum(rows, "kesehatan_employer")
    ELSE IF c = "JKK" THEN FieldSum(rows, "jkk")
    ELSE FieldSum(rows, "jkm")

TotalOf(totals, c) ==
    IF c = "JHT" THEN totals.jht_total
    ELSE IF c = "JP" THEN totals.jp_total
    ELSE IF c = "Kesehatan" THEN totals.kesehatan_total
    ELSE IF c = "JKK" THEN totals.jkk_total
    ELSE totals.jkm_total

\* C7: whatever field of an employee detail row the user edits, running the
\* aggregation a second time on the unchanged rows gives the component
\* table (and the total) that the first run gave.
C7_AggregationIdempotent ==
    \A i \in 1..Len(frm.employee_details), k \in EmployeeFields,
       v \in EmployeeAmounts :
        LET before == [Fresh(frm) EXCEPT !.employee_details[i][k] = v]
            once == update_components_from_employees(before)
            twice == update_components_from_employees(once)
        IN /\ twice.komponen = once.komponen
           /\ twice.total = once.total

C7_Witness ==
    /\ lastOp = "employee_details_field"
    /\ Len(frm.employee_details) = 2
    /\ Len(frm.komponen) >= 2

\* C8: the totals computed from the employee detail rows are, for JHT, JP
\* and Kesehatan, the sum of the employee's and the employer's amounts over
\* all rows and, for JKK and JKM, the sum of the employer's figure; after an
\* aggregation the component rows carry these totals.
C8_CategoryTotalsAreSums ==
    \A c \in Categories :
        /\ TotalOf(calculate_employee_totals(frm.employee_details), c)
              = Owed(frm.employee_details, c)
        /\ (lastOp \in AggregateOps /\ frm.employee_details # <<>>) =>
              \A i \in RowsOf(frm.komponen, ComponentName(c)) :
                  frm.komponen[i].amount = Owed(frm.employee_details, c)

C8_Witness ==
    /\ lastOp \in AggregateOps
    /\ Len(frm.employee_details) = 2
    /\ frm.employee_details[1].jht_employee > 0
    /\ frm.employee_details[2].jht_employer > 0
    /\ frm.employee_details[2].jkk > 0
    /\ RowsOf(frm.komponen, "BPJS JHT") # {}
    /\ RowsOf(frm.komponen, "BPJS JKK") # {}

---------------------------------------------------------------------------
(* Properties of the settlement                                            *)

\* C1: over any sequence of refreshes and Create / Generate Payment Entry
\* actions on one submitted document, generate_payment_entry is invoked
\* at most once.
C1_PaymentCreationInvokedOnce == server.invoked <= 1

\* C2: two near-simultaneous settle actions on the same document produce at
\* most one payment reference.
C2_AtMostOnePaymentReference == server.created <= 1

C6_ZeroOnlyCategoryHasNoRow ==
    (/\ lastOp \in {"employee_details_add", "employee_details_amount",
                    "employee_details_remove"}
     /\ frm.employee_details # <<>>)
        => (FieldSum(frm.employee_details, "bpjs_jht") = 0
              => RowsOf(frm.komponen, "BPJS JHT") = {})

\* the rows a fresh aggregation of the current employee details gives: one
\* row per category whose total is positive, carrying that total
ExpectedKomponen(rows) ==
    {[component |-> ComponentName(c), amount |-> Owed(rows, c)] :
        c \in {d \in Categories : Owed(rows, d) > 0}}

\* C16: after an employee-detail add, edit or remove event (the removal of
\* the last row included), the component table holds exactly one row per
\* category whose current total is positive, with that total as amount,
\* and no other row.
C16_KomponenIsFreshReplacement ==
    lastOp \in AggregateOps =>
        /\ {frm.komponen[i] : i \in 1..Len(frm.komponen)}
              = ExpectedKomponen(frm.employee_details)
        /\ Len(frm.komponen)
              = Cardinality(ExpectedKomponen(frm.employee_details))

\* C17: when calculate_total has completed (upsert version), after a
\* component add, remove or amount edit or after validate, the total of
\* the document is the sum of the amounts of the component rows as they
\* then stand.
C17_TotalIsSumOfKomponen ==
    lastOp \in {"komponen_add", "komponen_amount", "komponen_remove",
                "validate"}
        => frm.total = SumAmounts(frm.komponen)


---------------------------------------------------------------------------
(* PPh TER Table form (doctype/pph_ter_table/pph_ter_table.js).  Amounts   *)
(* of this form are whole currency units.                                  *)

MaxDetails == 2     \* rows of the details table

BIAYA_JABATAN_PERCENT == 5
BIAYA_JABATAN_MAX == 500000

TaxAmounts == {0, 200000}
BrutoAmounts == {0, 1000000, 20000000}
BiayaJabatanAmounts == {0, 50000}

Min(a, b) == IF a < b THEN a ELSE b

BlankDetail == [employee |-> 0, amount |-> 0, penghasilan_bruto |-> 0,
                biaya_jabatan |-> 0, penghasilan_netto |-> 0]

\* PPh TER Detail.biaya_jabatan, on the row
biaya_jabatan_changed(row) ==
    IF row.penghasilan_bruto # 0 /\ row.biaya_jabatan # 0
    THEN [row EXCEPT !.penghasilan_netto =
                        row.penghasilan_bruto - row.biaya_jabatan]
    ELSE row

\* Math.min(row.penghasilan_bruto * 0.05, 500000)
BiayaJabatan(penghasilan_bruto) ==
    Min((penghasilan_bruto * BIAYA_JABATAN_PERCENT) \div 100, BIAYA_JABATAN_MAX)

\* PPh TER Detail.penghasilan_bruto, on the row: frappe.model.set_value of
\* biaya_jabatan runs that field's handler when the value changes
penghasilan_bruto_changed(row) ==
    IF row.penghasilan_bruto # 0
    THEN LET b == BiayaJabatan(row.penghasilan_bruto)
             r1 == IF row.biaya_jabatan = b THEN row
                   ELSE biaya_jabatan_changed([row EXCEPT !.biaya_jabatan = b])
         IN [r1 EXCEPT !.penghasilan_netto = row.penghasilan_bruto - b]
    ELSE row

\* calculate_total that adds the account row without looking at the table
calculate_total_pph_always_adding(f) ==
    LET total == SumAmounts(f.details)
    IN IF f.account_details_set /\ total > 0
       THEN [f EXCEPT !.total = total,
                      !.account_details =
                          Append(@, [tax_category |-> "PPh 21", amount |-> 0]),
                      !.account_lookup = total]
       ELSE [f EXCEPT !.total = total]

\* calculate_total of the PPh TER Table: the total of the detail rows and,
\* on an empty account table, a PPh 21 account row whose amount is written
\* when the account lookup resolves
calculate_total_pph(f) ==
    LET total == SumAmounts(f.details)
    IN IF f.account_details_set /\ f.account_details = <<>> /\ total > 0
       THEN [f EXCEPT !.total = total,
                      !.account_details = <<[tax_category |-> "PPh 21", amount |-> 0]>>,
                      !.account_lookup = total]
       ELSE [f EXCEPT !.total = total]

NewPphForm(account_details_set) ==
    [period |-> "", month |-> 0, year |-> 0, month_year_title |-> <<>>,
     details |-> <<>>, row |-> 0,
     account_details |-> <<>>, account_details_set |-> account_details_set,
     \* the total that a pending frappe.db.get_list(...).then will write to
     \* the account row, -1 when none is pending
     account_lookup |-> -1,
     total |-> 0, docstatus |-> 0, msg |-> "none", alert |-> FALSE]

details_add ==
    /\ Len(frm.details) < MaxDetails
    /\ frm' = calculate_total_pph(
                 [frm EXCEPT !.details = Append(@, BlankDetail),
                             !.row = Len(frm.details) + 1])
    /\ lastOp' = "details_add"
    /\ UNCHANGED <<server, sess>>

details_amount ==
    /\ \E i \in 1..Len(frm.details), v \in TaxAmounts :
          /\ v # frm.details[i].amount
          /\ frm' = calculate_total_pph(
                       [frm EXCEPT !.details[i].amount = v, !.row = i])
    /\ lastOp' = "details_amount"
    /\ UNCHANGED <<server, sess>>

details_remove ==
    /\ \E i \in 1..Len(frm.details) :
          frm' = calculate_total_pph(
                    [frm EXCEPT !.details = RemoveAt(@, i), !.row = 0])
    /\ lastOp' = "details_remove"
    /\ UNCHANGED <<server, sess>>

penghasilan_bruto ==
    /\ \E i \in 1..Len(frm.details), v \in BrutoAmounts :
          /\ v # frm.details[i].penghasilan_bruto
          /\ frm' = [frm EXCEPT
                        !.details[i] = penghasilan_bruto_changed(
                                          [@ EXCEPT !.penghasilan_bruto = v]),
                        !.row = i]
    /\ lastOp' = "penghasilan_bruto"
    /\ UNCHANGED <<server, sess>>

biaya_jabatan ==
    /\ \E i \in 1..Len(frm.details), v \in BiayaJabatanAmounts :
          /\ v # frm.details[i].biaya_jabatan
          /\ frm' = [frm EXCEPT
                        !.details[i] = biaya_jabatan_changed(
                                          [@ EXCEPT !.biaya_jabatan = v]),
                        !.row = i]
    /\ lastOp' = "biaya_jabatan"
    /\ UNCHANGED <<server, sess>>

\* frappe.db.get_list('Account', ...) of calculate_total resolves: the row
\* it created gets the total taken then (the row may be gone by now)
account_lookup_resolved ==
    /\ frm.account_lookup >= 0
    /\ frm' = [frm EXCEPT
                  !.account_lookup = -1,
                  !.account_details =
                      IF @ = <<>> THEN @
                      ELSE [@ EXCEPT ![1].amount = frm.account_lookup]]
    /\ lastOp' = "account_lookup_resolved"
    /\ UNCHANGED <<server, sess>>

(* The detail rows of a draft, edited by hand *)
InitTerDetail ==
    /\ \E loaded \in BOOLEAN : frm = NewPphForm(loaded)
    /\ lastOp = "init"
    /\ server = NoSettlement
    /\ sess = <<>>

NextTerDetail ==
    \/ details_add
    \/ details_amount
    \/ details_remove
    \/ penghasilan_bruto
    \/ biaya_jabatan
    \/ account_lookup_resolved

SpecTerDetail == InitTerDetail /\ [][NextTerDetail]_vars

\* C20: in every detail row penghasilan_netto is penghasilan_bruto minus
\* biaya_jabatan, whatever edits of the two fields came before (an edit to
\* 0 included), and right after an edit of penghasilan_bruto the row's
\* biaya_jabatan is min(5% of penghasilan_bruto, 500000).
C20_NettoIsBrutoMinusBiayaJabatan ==
    /\ \A i \in 1..Len(frm.details) :
          frm.details[i].penghasilan_netto
             = frm.details[i].penghasilan_bruto - frm.details[i].biaya_jabatan
    /\ lastOp = "penghasilan_bruto" =>
          frm.details[frm.row].biaya_jabatan
             = BiayaJabatan(frm.details[frm.row].penghasilan_bruto)

---------------------------------------------------------------------------
(* Calculate From Salary Slips: the details of a PPh TER Table draft are   *)
(* pulled from the salary slips of its period.  The server method          *)
(* calculate_from_salary_slips is not part of the scripts; it is modelled  *)
(* from the specification: one record per salary slip of the period, its   *)
(* pph21 the regular monthly tax of the slip, the December correction      *)
(* (koreksi_pph21) a figure of its own.                                    *)

\* salary slips on the server: as many as the details table has rows
MaxSlips == MaxDetails

DECEMBER == 12

\* the salary slips that may be submitted: regular tax, correction, month
\* of the end date
SalarySlips ==
    {[pph21 |-> 200000, koreksi_pph21 |-> -50000, month |-> 12],
     [pph21 |-> 100000, koreksi_pph21 |-> 50000, month |-> 12],
     [pph21 |-> 200000, koreksi_pph21 |-> -50000, month |-> 11]}

\* month_names of the PPh TER Table form, as far as the model's periods go
PeriodNames == {"November", "December"}
MonthOfPeriod(p) == IF p = "November" THEN 11 ELSE IF p = "December" THEN 12 ELSE 0

\* the indicator shown for any month
koreksi_indicator_any_month(slip) ==
    IF slip.koreksi_pph21 # 0
    THEN IF slip.koreksi_pph21 > 0 THEN "Kurang Bayar" ELSE "Lebih Bayar"
    ELSE "none"

\* Salary Slip.refresh: the indicator of the December correction
koreksi_indicator(slip) ==
    IF slip.koreksi_pph21 # 0 /\ slip.month = DECEMBER
    THEN IF slip.koreksi_pph21 > 0 THEN "Kurang Bayar" ELSE "Lebih Bayar"
    ELSE "none"

\* indicator_color of that indicator
koreksi_indicator_color(slip) ==
    IF slip.koreksi_pph21 > 0 THEN "orange" ELSE "green"

\* the row of the callback with the correction merged into the amount
DetailRow_merging_correction(emp) ==
    [BlankDetail EXCEPT !.employee = emp.employee,
                        !.amount = emp.pph21 + emp.koreksi_pph21]

\* let row = frm.add_child('details'); row.employee = emp.employee; ...
DetailRow(emp) ==
    [BlankDetail EXCEPT !.employee = emp.employee, !.amount = emp.pph21]

\* the callback without frm.clear_table('details')
calculate_from_salary_slips_callback_appending(f, message) ==
    calculate_total_pph(
        [f EXCEPT !.details = @ \o [i \in 1..Len(message) |-> DetailRow(message[i])],
                  !.row = 0, !.alert = TRUE, !.msg = "none"])

\* callback of the call, for a response that carries a list of records
calculate_from_salary_slips_callback(f, message) ==
    calculate_total_pph(
        [f EXCEPT !.details = [i \in 1..Len(message) |-> DetailRow(message[i])],
                  !.row = 0, !.alert = TRUE, !.msg = "none"])

\* server side: the records of the salary slips of the period
RECURSIVE RecordsOf(_, _, _)
RecordsOf(slips, i, m) ==
    IF i > Len(slips) THEN <<>>
    ELSE (IF slips[i].month = m
          THEN <<[employee |-> i, pph21 |-> slips[i].pph21,
                  koreksi_pph21 |-> slips[i].koreksi_pph21]>>
          ELSE <<>>) \o RecordsOf(slips, i + 1, m)

NoPull == [dialogs |-> 0, calls |-> <<>>, processed |-> <<>>,
           indicator |-> [slip |-> 0, text |-> "none"]]

Idle == sess.dialogs = 0 /\ sess.calls = <<>>

\* a salary slip of the company is submitted
salary_slip_submit ==
    /\ Len(server.slips) < MaxSlips
    /\ \E slip \in SalarySlips :
          server' = [server EXCEPT !.slips = Append(@, slip)]
    /\ lastOp' = "salary_slip_submit"
    /\ UNCHANGED <<frm, sess>>

\* the Salary Slip form of slip i is refreshed
salary_slip_refresh ==
    /\ \E i \in 1..Len(server.slips) :
          sess' = [sess EXCEPT !.indicator =
                      [slip |-> i, text |-> koreksi_indicator(server.slips[i])]]
    /\ lastOp' = "salary_slip_refresh"
    /\ UNCHANGED <<frm, server>>

\* PPh TER Table.period
period ==
    /\ Idle
    /\ \E p \in PeriodNames :
          /\ p # frm.period
          /\ frm' = [frm EXCEPT
                        !.period = p,
                        !.month = MonthOfPeriod(p),
                        !.month_year_title =
                            IF frm.year # 0 THEN <<p, frm.year>> ELSE @]
    /\ lastOp' = "period"
    /\ UNCHANGED <<server, sess>>

\* the Calculate From Salary Slips button of a draft
calculate_from_salary_slips ==
    /\ frm.docstatus = 0
    /\ sess.dialogs + Len(sess.calls) < MaxPulls
    /\ IF frm.period = "" \/ frm.year = 0
       THEN /\ frm' = [frm EXCEPT !.msg = "Please set Period and Year first",
                                  !.alert = FALSE]
            /\ sess' = sess
       ELSE /\ frm' = [frm EXCEPT !.msg = "none", !.alert = FALSE]
            /\ sess' = [sess EXCEPT !.dialogs = @ + 1]
    /\ lastOp' = "calculate_from_salary_slips"
    /\ UNCHANGED server

\* the confirmation is answered; on yes frappe.call sends the request
calculate_from_salary_slips_confirm ==
    /\ sess.dialogs > 0
    /\ \E yes \in BOOLEAN :
          sess' = [sess EXCEPT
                      !.dialogs = @ - 1,
                      !.calls = IF yes
                                THEN Append(@, [state |-> "sent",
                                                period |-> frm.period,
                                                message |-> <<>>])
                                ELSE @]
    /\ lastOp' = "calculate_from_salary_slips_confirm"
    /\ UNCHANGED <<frm, server>>

\* the server answers a request from the slips it holds at that moment
calculate_from_salary_slips_response ==
    /\ \E c \in 1..Len(sess.calls) :
          /\ sess.calls[c].state = "sent"
          /\ sess' = [sess EXCEPT
                         !.calls[c].state = "response",
                         !.calls[c].message =
                             RecordsOf(server.slips, 1,
                                       MonthOfPeriod(sess.calls[c].period))]
    /\ lastOp' = "calculate_from_salary_slips_response"
    /\ UNCHANGED <<frm, server>>

\* the callback of one answered request runs, in any order of the requests
pull_callback ==
    /\ \E c \in 1..Len(sess.calls) :
          /\ sess.calls[c].state = "response"
          /\ frm' = calculate_from_salary_slips_callback(frm, sess.calls[c].message)
          /\ sess' = [sess EXCEPT !.calls = RemoveAt(@, c),
                                  !.processed = sess.calls[c].message]
    /\ lastOp' = "pull_callback"
    /\ UNCHANGED server

\* a detail row typed by hand
details_add_by_hand ==
    /\ Idle
    /\ details_add

InitPull ==
    /\ frm = [NewPphForm(TRUE) EXCEPT !.year = 2025]
    /\ lastOp = "init"
    /\ server = [slips |-> <<>>]
    /\ sess = NoPull

NextPull ==
    \/ salary_slip_submit
    \/ salary_slip_refresh
    \/ period
    \/ calculate_from_salary_slips
    \/ calculate_from_salary_slips_confirm
    \/ calculate_from_salary_slips_response
    \/ pull_callback
    \/ details_add_by_hand
    \/ account_lookup_resolved

SpecPull == InitPull /\ [][NextPull]_vars

---------------------------------------------------------------------------
(* Properties of the PPh TER Table pull                                    *)

\* the regular monthly tax of the slips the detail rows were pulled from
RECURSIVE RegularTax(_, _)
RegularTax(details, slips) ==
    IF details = <<>> THEN 0
    ELSE slips[Head(details).employee].pph21 + RegularTax(Tail(details), slips)

\* the corrections of those slips
RECURSIVE Correction(_, _)
Correction(details, slips) ==
    IF details = <<>> THEN 0
    ELSE slips[Head(details).employee].koreksi_pph21
            + Correction(Tail(details), slips)

---------------------------------------------------------------------------
(* Salary Slip form (public/js/salary_slip.js): the Debug TER Calc and Fix *)
(* TER Calculation buttons.  Amounts are in tenths of a currency unit, the *)
(* rate in percent.                                                        *)

TER_TOLERANCE == 10         \* Math.abs(pph21_amount - expected_ter_tax) > 1
GROSS_PAY_TOLERANCE == 10   \* Math.abs(frm.doc.gross_pay - total_earnings) > 1

EarningAmounts == {0, 1000}
Pph21Amounts == {50, 55, 60, 61}
TerRates == {0, 5}
Corrections == {-50000, 0, 50000}
\* month of the end date of the slip; 0: the slip has no end date
EndMonths == {0, 11, 12}

\* pph21_amount: the sum of the deductions whose component is "PPh 21"
RECURSIVE Pph21Amount(_)
Pph21Amount(deductions) ==
    IF deductions = <<>> THEN 0
    ELSE (IF Head(deductions).salary_component = "PPh 21"
          THEN Head(deductions).amount ELSE 0) + Pph21Amount(Tail(deductions))

\* the comparison with the bound included
TerMismatch_inclusive(pph21_amount, total_earnings, ter_rate) ==
    Abs(pph21_amount * 100 - total_earnings * ter_rate) >= TER_TOLERANCE * 100

\* Math.abs(pph21_amount - expected_ter_tax) > 1, with expected_ter_tax =
\* total_earnings * (ter_rate / 100); both sides are taken times 100
TerMismatch(pph21_amount, total_earnings, ter_rate) ==
    Abs(pph21_amount * 100 - total_earnings * ter_rate) > TER_TOLERANCE * 100

\* the Debug TER Calc button: a message and nothing else
debug_ter_calc_report(f) ==
    LET total_earnings == SumAmounts(f.earnings)
        pph21_amount == Pph21Amount(f.deductions)
    IN [f EXCEPT
          !.msg = "TER Calculation Debug",
          !.report = [using_ter |-> f.is_using_ter # 0,
                      expected_x100 |-> total_earnings * f.ter_rate,
                      mismatch |-> TerMismatch(pph21_amount, total_earnings,
                                               f.ter_rate),
                      gross_warning |-> Abs(f.gross_pay - total_earnings)
                                           > GROSS_PAY_TOLERANCE]]

NoReport == [using_ter |-> FALSE, expected_x100 |-> 0, mismatch |-> FALSE,
             gross_warning |-> FALSE]

\* the Fix TER Calculation button of a draft
fix_ter_calculation_result(f) ==
    IF f.is_using_ter = 0
    THEN [f EXCEPT !.msg = "Slip gaji ini tidak menggunakan metode TER."]
    ELSE LET correct_tax == (SumAmounts(f.earnings) * f.ter_rate) \div 100
             fixed == [i \in 1..Len(f.deductions) |->
                         IF f.deductions[i].salary_component = "PPh 21"
                         THEN [f.deductions[i] EXCEPT !.amount = correct_tax]
                         ELSE f.deductions[i]]
         IN IF \E i \in 1..Len(f.deductions) :
                   f.deductions[i].salary_component = "PPh 21"
            THEN [f EXCEPT !.deductions = fixed, !.msg = "TER Calculation Fixed"]
            ELSE [f EXCEPT !.deductions = fixed,
                           !.msg = "Komponen PPh 21 tidak ditemukan."]

\* Salary Slip.refresh: the dashboard is drawn again with the indicator of
\* the TER method and the indicator of the December correction
salary_slip_dashboard(f) ==
    (IF f.is_using_ter # 0
     THEN {[text |-> "Using TER Method", color |-> "green"]} ELSE {})
    \cup (IF koreksi_indicator(f) # "none"
          THEN {[text |-> koreksi_indicator(f),
                 color |-> koreksi_indicator_color(f)]}
          ELSE {})

refresh_salary_slip ==
    /\ frm' = [frm EXCEPT !.dashboard = salary_slip_dashboard(frm),
                          !.msg = "none", !.report = NoReport]
    /\ lastOp' = "refresh"
    /\ UNCHANGED <<server, sess>>

\* the payroll run writes the correction of the draft again
koreksi_pph21 ==
    /\ frm.docstatus = 0
    /\ \E v \in Corrections :
          /\ v # frm.koreksi_pph21
          /\ frm' = [frm EXCEPT !.koreksi_pph21 = v, !.msg = "none",
                                !.report = NoReport]
    /\ lastOp' = "koreksi_pph21"
    /\ UNCHANGED <<server, sess>>

debug_ter_calc ==
    /\ frm' = debug_ter_calc_report([frm EXCEPT !.report = NoReport])
    /\ lastOp' = "debug_ter_calc"
    /\ UNCHANGED <<server, sess>>

fix_ter_calculation ==
    /\ frm.docstatus = 0
    /\ frm' = fix_ter_calculation_result([frm EXCEPT !.report = NoReport])
    /\ lastOp' = "fix_ter_calculation"
    /\ UNCHANGED <<server, sess>>

\* the amount of an earning or of a deduction of the draft is edited
earnings_amount ==
    /\ frm.docstatus = 0
    /\ \E i \in 1..Len(frm.earnings), v \in EarningAmounts :
          /\ v # frm.earnings[i].amount
          /\ frm' = [frm EXCEPT !.earnings[i].amount = v, !.msg = "none",
                                !.report = NoReport]
    /\ lastOp' = "earnings_amount"
    /\ UNCHANGED <<server, sess>>

deductions_amount ==
    /\ frm.docstatus = 0
    /\ \E i \in 1..Len(frm.deductions), v \in Pph21Amounts :
          /\ v # frm.deductions[i].amount
          /\ frm' = [frm EXCEPT !.deductions[i].amount = v, !.msg = "none",
                                !.report = NoReport]
    /\ lastOp' = "deductions_amount"
    /\ UNCHANGED <<server, sess>>

(* A salary slip as the payroll run left it: with or without the TER       *)
(* method, with a PPh 21 deduction or without, draft or submitted          *)
InitSlip ==
    /\ \E using \in {0, 1}, rate \in TerRates, ds \in {0, 1}, m \in EndMonths,
          d \in {<<>>,
                 <<[salary_component |-> "PPh 21", amount |-> 50]>>,
                 <<[salary_component |-> "BPJS JHT Employee", amount |-> 20],
                   [salary_component |-> "PPh 21", amount |-> 50]>>,
                 <<[salary_component |-> "PPh 21", amount |-> 50],
                   [salary_component |-> "PPh 21", amount |-> 50]>>} :
          frm = [earnings |-> <<[amount |-> 1000]>>, deductions |-> d,
                 gross_pay |-> 1000, is_using_ter |-> using, ter_rate |-> rate,
                 koreksi_pph21 |-> 0, month |-> m, dashboard |-> {},
                 docstatus |-> ds, msg |-> "none", report |-> NoReport]
    /\ lastOp = "init"
    /\ server = NoSettlement
    /\ sess = <<>>

NextSlip ==
    \/ refresh_salary_slip
    \/ koreksi_pph21
    \/ debug_ter_calc
    \/ fix_ter_calculation
    \/ earnings_amount
    \/ deductions_amount

SpecSlip == InitSlip /\ [][NextSlip]_vars

\* the stored fields of the slip
SlipFields(f) ==
    [earnings |-> f.earnings, deductions |-> f.deductions,
     gross_pay |-> f.gross_pay, is_using_ter |-> f.is_using_ter,
     ter_rate |-> f.ter_rate, docstatus |-> f.docstatus]

\* the stored tax and gross income times rate, both times 100
DivergenceX100(f) ==
    Abs(Pph21Amount(f.deductions) * 100 - SumAmounts(f.earnings) * f.ter_rate)

\* C12 as stated: on a slip that uses the TER method the check flags a
\* mismatch exactly when the stored tax diverges from gross income x rate
\* by more than 0.1, and it changes no stored field.
C12_MismatchIffBeyondTenth ==
    [][(lastOp' = "debug_ter_calc" /\ frm.is_using_ter = 1) =>
          /\ SlipFields(frm') = SlipFields(frm)
          /\ frm'.report.mismatch <=> DivergenceX100(frm) > TOLERANCE * 100]_vars

\* C12 as amended: the same with the tolerance of this check, one currency
\* unit.
C12_MismatchIffBeyondOneUnit ==
    [][(lastOp' = "debug_ter_calc" /\ frm.is_using_ter = 1) =>
          /\ SlipFields(frm') = SlipFields(frm)
          /\ frm'.msg = "TER Calculation Debug"
          /\ frm'.report.mismatch <=> DivergenceX100(frm) > 10 * 100]_vars

C12_Witness ==
    /\ lastOp = "debug_ter_calc"
    /\ frm.is_using_ter = 1
    /\ frm.ter_rate = 5
    /\ Pph21Amount(frm.deductions) = 61
    /\ frm.report.mismatch

---------------------------------------------------------------------------
(* Payroll Entry form (public/js/payroll_entry.js): the period check of    *)
(* refresh and validate.  A date is year, month (1..12) and day; the empty *)
(* field is NoDate.                                                        *)

NoDate == [year |-> 0, month |-> 0, day |-> 0]
Dates == {[year |-> 2025, month |-> 1, day |-> 15],
          [year |-> 2025, month |-> 1, day |-> 31],
          [year |-> 2025, month |-> 2, day |-> 1],
          [year |-> 2025, month |-> 12, day |-> 31],
          [year |-> 2026, month |-> 1, day |-> 20]}

MomentMonthNames == <<"January", "February", "March", "April", "May", "June",
                      "July", "August", "September", "October", "November",
                      "December">>

\* moment(date).month(): 0 for January ... 11 for December
MomentMonth(date) == date.month - 1
\* moment(date).format('MMMM')
MomentMMMM(date) == MomentMonthNames[date.month]

\* Payroll Entry.validate: a warning, frappe.validated is left alone
payroll_entry_validate(f) ==
    IF f.start_date # NoDate /\ f.end_date # NoDate
       /\ MomentMonth(f.start_date) # MomentMonth(f.end_date)
    THEN [f EXCEPT !.msg = "Peringatan"]
    ELSE f

\* Payroll Entry.refresh: the dashboard is drawn again, with the red
\* indicator when the month names differ; the button that adds the TER
\* field is offered when the doctype has no such field
payroll_entry_refresh(f) ==
    [f EXCEPT
       !.indicators =
          IF f.start_date # NoDate /\ f.end_date # NoDate
             /\ MomentMMMM(f.start_date) # MomentMMMM(f.end_date)
          THEN {"Periode harus dalam bulan yang sama"} ELSE {},
       !.ter_button = ~f.has_ter_field]

\* Payroll Entry.end_date
payroll_entry_end_date(f) ==
    IF f.end_date # NoDate /\ MomentMonth(f.end_date) = 11
    THEN [f EXCEPT !.indicators = @ \cup {"Bulan Desember"}]
    ELSE f

PayrollFresh(f) == [f EXCEPT !.validated = TRUE, !.msg = "none"]

start_date ==
    /\ \E d \in Dates \cup {NoDate} :
          /\ d # frm.start_date
          /\ frm' = [PayrollFresh(frm) EXCEPT !.start_date = d]
    /\ lastOp' = "start_date"
    /\ UNCHANGED <<server, sess>>

end_date ==
    /\ \E d \in Dates \cup {NoDate} :
          /\ d # frm.end_date
          /\ frm' = payroll_entry_end_date(
                       [PayrollFresh(frm) EXCEPT !.end_date = d])
    /\ lastOp' = "end_date"
    /\ UNCHANGED <<server, sess>>

Validate_payroll_entry ==
    /\ frm' = payroll_entry_validate(PayrollFresh(frm))
    /\ lastOp' = "validate"
    /\ UNCHANGED <<server, sess>>

refresh_payroll_entry ==
    /\ frm' = payroll_entry_refresh(PayrollFresh(frm))
    /\ lastOp' = "refresh"
    /\ UNCHANGED <<server, sess>>

InitPayroll ==
    /\ \E has \in BOOLEAN :
          frm = payroll_entry_refresh(
                   [start_date |-> NoDate, end_date |-> NoDate,
                    indicators |-> {}, has_ter_field |-> has,
                    ter_button |-> FALSE, validated |-> TRUE, msg |-> "none"])
    /\ lastOp = "init"
    /\ server = NoSettlement
    /\ sess = <<>>

NextPayroll ==
    \/ start_date
    \/ end_date
    \/ Validate_payroll_entry
    \/ refresh_payroll_entry

SpecPayroll == InitPayroll /\ [][NextPayroll]_vars

\* the two endpoints lie in different calendar months
SpansMonths(f) ==
    /\ f.start_date # NoDate
    /\ f.end_date # NoDate
    /\ <<f.start_date.year, f.start_date.month>>
          # <<f.end_date.year, f.end_date.month>>

\* C13: when the two dates of a Payroll Entry span more than one calendar
\* month (the same month number in different years included), validate
\* lets the save go on and always raises the warning.  (The scripts have
\* no strict mode; the check of validate is the warn mode.)
C13_CrossPeriodAlwaysWarned ==
    (lastOp = "validate" /\ SpansMonths(frm)) =>
        frm.validated /\ frm.msg = "Peringatan"

---------------------------------------------------------------------------
(* The earlier BPJS Payment Summary form script (part_003, first file):    *)
(* validate checks that month and year are set and runs calculate_total,   *)
(* which adds the amounts of the employee details to the component total.  *)

BlankEmployee_part_003 == [amount |-> 0]

calculate_employee_totals_part_003(f) ==
    IF f.employee_details_set THEN SumField(f.employee_details, "amount") ELSE 0

calculate_total_part_003(f) ==
    LET komponen_total == IF f.komponen_set THEN SumAmounts(f.komponen) ELSE 0
    IN [f EXCEPT !.total = komponen_total
                              + (IF f.employee_details_set
                                 THEN calculate_employee_totals_part_003(f)
                                 ELSE 0)]

validate_part_003(f) ==
    calculate_total_part_003(
        IF f.month = 0 \/ f.year = 0
        THEN [f EXCEPT !.validated = FALSE,
                       !.msg = "Month and Year are mandatory fields."]
        ELSE f)

\* month and year are plain fields of this script: no handler runs
month_part_003 ==
    /\ \E m \in Months :
          /\ m # frm.month
          /\ frm' = [Fresh(frm) EXCEPT !.month = m]
    /\ lastOp' = "month"
    /\ UNCHANGED <<server, sess>>

year_part_003 ==
    /\ \E y \in Years :
          /\ y # frm.year
          /\ frm' = [Fresh(frm) EXCEPT !.year = y]
    /\ lastOp' = "year"
    /\ UNCHANGED <<server, sess>>

komponen_add_part_003 ==
    /\ Len(frm.komponen) < MaxKomponen
    /\ frm' = calculate_total_part_003(
                 [Fresh(frm) EXCEPT !.komponen = Append(@, BlankKomponen),
                                    !.komponen_set = TRUE])
    /\ lastOp' = "komponen_add"
    /\ UNCHANGED <<server, sess>>

komponen_amount_part_003 ==
    /\ \E i \in 1..Len(frm.komponen), v \in KomponenAmounts :
          /\ v # frm.komponen[i].amount
          /\ frm' = calculate_total_part_003(
                       [Fresh(frm) EXCEPT !.komponen[i].amount = v])
    /\ lastOp' = "komponen_amount"
    /\ UNCHANGED <<server, sess>>

komponen_remove_part_003 ==
    /\ \E i \in 1..Len(frm.komponen) :
          frm' = calculate_total_part_003(
                    [Fresh(frm) EXCEPT !.komponen = RemoveAt(@, i)])
    /\ lastOp' = "komponen_remove"
    /\ UNCHANGED <<server, sess>>

\* the employee detail handlers compute a sum and store nothing
employee_details_add_part_003 ==
    /\ Len(frm.employee_details) < MaxEmployees
    /\ frm' = [Fresh(frm) EXCEPT
                  !.employee_details = Append(@, BlankEmployee_part_003),
                  !.employee_details_set = TRUE]
    /\ lastOp' = "employee_details_add"
    /\ UNCHANGED <<server, sess>>

employee_details_amount_part_003 ==
    /\ \E i \in 1..Len(frm.employee_details), v \in EmployeeAmounts :
          /\ v # frm.employee_details[i].amount
          /\ frm' = [Fresh(frm) EXCEPT !.employee_details[i].amount = v]
    /\ lastOp' = "employee_details_amount"
    /\ UNCHANGED <<server, sess>>

employee_details_remove_part_003 ==
    /\ \E i \in 1..Len(frm.employee_details) :
          frm' = [Fresh(frm) EXCEPT !.employee_details = RemoveAt(@, i)]
    /\ lastOp' = "employee_details_remove"
    /\ UNCHANGED <<server, sess>>

Validate_part_003 ==
    /\ frm' = validate_part_003(Fresh(frm))
    /\ lastOp' = "validate"
    /\ UNCHANGED <<server, sess>>

InitPart003 ==
    /\ \E loaded \in BOOLEAN :
          frm = [NewForm(FALSE) EXCEPT !.komponen_set = loaded,
                                       !.employee_details_set = loaded]
    /\ lastOp = "init"
    /\ server = NoSettlement
    /\ sess = <<>>

NextPart003 ==
    \/ month_part_003
    \/ year_part_003
    \/ komponen_add_part_003
    \/ komponen_amount_part_003
    \/ komponen_remove_part_003
    \/ employee_details_add_part_003
    \/ employee_details_amount_part_003
    \/ employee_details_remove_part_003
    \/ Validate_part_003

SpecPart003 == InitPart003 /\ [][NextPart003]_vars

\* C14: a BPJS Payment Summary that validate has not rejected has a month
\* in 1..12 and a year.
C14_ValidatedPeriodIsValid ==
    (lastOp = "validate" /\ frm.validated) =>
        /\ frm.month >= MONTH_MIN
        /\ frm.month <= MONTH_MAX
        /\ frm.year # 0

---------------------------------------------------------------------------
(* Properties of the buttons of the settlement                             *)

\* the form of session s is on screen, as its last refresh drew it from a
\* copy of the document that carries the payment reference
KnowsSettled(s) ==
    /\ sess[s].route = "Form"
    /\ sess[s].payment_entry # 0
    /\ sess[s].call = "none"

C18_ButtonsFollowReference ==
    \A s \in Sessions : sess[s].route = "Form" =>
        /\ sess[s].create_button
              <=> (sess[s].docstatus = 1 /\ sess[s].payment_entry = 0)
        /\ sess[s].view_button <=> sess[s].payment_entry # 0
        /\ ~(sess[s].create_button /\ sess[s].view_button)
        /\ sess[s].docstatus = 0 => ~sess[s].create_button

---------------------------------------------------------------------------
(* Properties of the Salary Slip dashboard and of Fix TER Calculation      *)

\* the correction indicators on the dashboard
CorrectionIndicators(f) ==
    {i \in f.dashboard : i.text \in {"Kurang Bayar", "Lebih Bayar"}}

\* C21: after a refresh of the Salary Slip the correction indicator is on
\* the dashboard exactly when the end date is in month 12 and koreksi_pph21
\* is not 0; it is "Kurang Bayar", orange, exactly when the correction is
\* positive and "Lebih Bayar", green, exactly when it is negative.
C21_CorrectionIndicatorOnlyInDecember ==
    lastOp = "refresh" =>
        /\ CorrectionIndicators(frm) # {}
              <=> (frm.month = 12 /\ frm.koreksi_pph21 # 0)
        /\ [text |-> "Kurang Bayar", color |-> "orange"] \in frm.dashboard
              <=> (frm.month = 12 /\ frm.koreksi_pph21 > 0)
        /\ [text |-> "Lebih Bayar", color |-> "green"] \in frm.dashboard
              <=> (frm.month = 12 /\ frm.koreksi_pph21 < 0)
        /\ Cardinality(CorrectionIndicators(frm)) <= 1

C21_Witness ==
    /\ lastOp = "refresh"
    /\ frm.month = 12
    /\ frm.koreksi_pph21 = -50000
    /\ [text |-> "Lebih Bayar", color |-> "green"] \in frm.dashboard

\* C29: after Fix TER Calculation on a draft that uses TER and has one or
\* more "PPh 21" deduction rows, the sum of the PPh 21 deductions is within
\* the debug tolerance of total earnings x ter_rate / 100; on a slip that
\* does not use TER or has no such row the deductions are unchanged.
C29_FixThenDebugMatches ==
    [][lastOp' = "fix_ter_calculation" =>
          IF frm.is_using_ter # 0
             /\ \E i \in 1..Len(frm.deductions) :
                   frm.deductions[i].salary_component = "PPh 21"
          THEN ~debug_ter_calc_report(frm').report.mismatch
          ELSE frm'.deductions = frm.deductions]_vars

---------------------------------------------------------------------------
(* BPJS Account Mapping (src/unnamed/part_001)                             *)

\* the account fields of the form, those the company handler resets
AccountFields ==
    {"kesehatan_employee_account", "kesehatan_employer_debit_account",
     "kesehatan_employer_credit_account", "jht_employee_account",
     "jht_employer_debit_account", "jht_employer_credit_account",
     "jp_employee_account", "jp_employer_debit_account",
     "jp_employer_credit_account", "jkk_employer_debit_account",
     "jkk_employer_credit_account", "jkm_employer_debit_account",
     "jkm_employer_credit_account"}

\* required_accounts of update_mapping_status
required_accounts ==
    {"kesehatan_employee_account", "kesehatan_employer_debit_account",
     "kesehatan_employer_credit_account", "jht_employee_account",
     "jht_employer_debit_account", "jht_employer_credit_account"}

Companies == {"", "PT A"}
AccountValues == {"", "2110 - BPJS"}

\* Math.round((total_filled / required_accounts.length) * 100)
mapping_percentage(f) ==
    LET total_filled == Cardinality({a \in required_accounts : f.accounts[a] # ""})
        length == Cardinality(required_accounts)
    IN (total_filled * 200 + length) \div (2 * length)

\* update_mapping_status: the headline of the dashboard
update_mapping_status(f) ==
    LET percentage == mapping_percentage(f)
    IN [f EXCEPT !.headline =
           IF percentage = 100
           THEN [text |-> "All required accounts are set", color |-> "green",
                 percentage |-> percentage]
           ELSE IF percentage >= 50
           THEN [text |-> "Some required accounts are missing",
                 color |-> "orange", percentage |-> percentage]
           ELSE [text |-> "Many required accounts are missing",
                 color |-> "red", percentage |-> percentage]]

NoHeadline == [text |-> "none", color |-> "none", percentage |-> 0]

\* BPJS Account Mapping.refresh
refresh_mapping ==
    /\ frm' = update_mapping_status(frm)
    /\ lastOp' = "refresh"
    /\ UNCHANGED <<server, sess>>

\* BPJS Account Mapping.company: every account field and the name are reset
company ==
    /\ \E c \in Companies :
          /\ c # frm.company
          /\ frm' = [frm EXCEPT !.company = c,
                                !.accounts = [a \in AccountFields |-> ""],
                                !.mapping_name =
                                    IF c # "" THEN <<"BPJS Account Mapping - ", c>>
                                    ELSE <<>>]
    /\ lastOp' = "company"
    /\ UNCHANGED <<server, sess>>

\* the user links or clears one account; the form has no handler for it
account_edit ==
    /\ \E a \in AccountFields, v \in AccountValues :
          /\ v # frm.accounts[a]
          /\ frm' = [frm EXCEPT !.accounts[a] = v]
    /\ lastOp' = "account_edit"
    /\ UNCHANGED <<server, sess>>

InitMapping ==
    /\ frm = [company |-> "", mapping_name |-> <<>>,
              accounts |-> [a \in AccountFields |-> ""], headline |-> NoHeadline]
    /\ lastOp = "init"
    /\ server = NoSettlement
    /\ sess = <<>>

NextMapping == refresh_mapping \/ company \/ account_edit

SpecMapping == InitMapping /\ [][NextMapping]_vars

\* C22: after a refresh the headline is "All required accounts are set",
\* green, 100%, only if every account field of every component (Kesehatan,
\* JHT, JP, JKK, JKM; employee and employer) is linked; otherwise it is
\* orange with at least 50% or red with less than 50%.
C22_GreenOnlyWhenAllLinked ==
    lastOp = "refresh" =>
        IF \A a \in AccountFields : frm.accounts[a] # ""
        THEN frm.headline.color = "green" /\ frm.headline.percentage = 100
        ELSE \/ frm.headline.color = "orange" /\ frm.headline.percentage >= 50
                  /\ frm.headline.percentage < 100
             \/ frm.headline.color = "red" /\ frm.headline.percentage < 50

---------------------------------------------------------------------------
(* Properties of the upsert of component rows                              *)

\* the component tables of a saved draft: up to MaxKomponen rows, each
\* blank or named, as the user typed or an earlier upsert left them
SavedKomponenRows ==
    {[component |-> c, amount |-> a] :
        c \in {""} \cup ComponentNames_upsert, a \in KomponenAmounts}

SavedKomponen ==
    UNION {[1..n -> SavedKomponenRows] : n \in 0..MaxKomponen}

(* A saved draft is opened and its employee details are edited *)
InitUpsertRows ==
    /\ \E k \in SavedKomponen :
          frm = [NewForm(FALSE) EXCEPT !.komponen = k, !.komponen_set = TRUE,
                                       !.employee_details_set = TRUE]
    /\ lastOp = "init"
    /\ server = NoSettlement
    /\ sess = <<>>

NextUpsertRows ==
    \/ employee_details_add_upsert
    \/ employee_details_figure_upsert
    \/ employee_details_amount_upsert
    \/ employee_details_remove_upsert

SpecUpsertRows == InitUpsertRows /\ [][NextUpsertRows]_vars

AtMostOneRowPerName(rows) ==
    \A c \in ComponentNames : Cardinality(RowsOf(rows, c)) <= 1

\* the figure of an employee detail row that feeds a component
FigureOf(name) ==
    IF name = "BPJS JHT" THEN "bpjs_jht"
    ELSE IF name = "BPJS JP" THEN "bpjs_jp"
    ELSE IF name = "BPJS JKK" THEN "bpjs_jkk"
    ELSE IF name = "BPJS JKM" THEN "bpjs_jkm"
    ELSE "bpjs_kesehatan"

EmployeeOps ==
    {"employee_details_add", "employee_details_amount", "employee_details_remove"}

\* C23: when calculate_employee_totals runs on a komponen table with at
\* most one row per component name, the table has at most one row per name
\* afterwards; a name that had a row keeps that row, at its place, with the
\* category total as its amount, and a name without a row gets one exactly
\* when its total is positive.
C23_UpsertKeepsOneRowPerName ==
    [][(lastOp' \in EmployeeOps /\ frm'.komponen_set
        /\ AtMostOneRowPerName(frm.komponen)) =>
          /\ AtMostOneRowPerName(frm'.komponen)
          /\ \A c \in ComponentNames :
                LET i == FirstRow(frm.komponen, c)
                    total == SumField(frm'.employee_details, FigureOf(c))
                IN IF i # 0
                   THEN /\ RowsOf(frm'.komponen, c) = {i}
                        /\ frm'.komponen[i].amount = total
                   ELSE RowsOf(frm'.komponen, c) # {} <=> total > 0]_vars

\* a step that overwrote the one existing "BPJS JHT" row
C23_Witness ==
    /\ lastOp \in EmployeeOps
    /\ Cardinality(RowsOf(frm.komponen, "BPJS JHT")) = 1
    /\ Len(frm.employee_details) = 2
    /\ frm.komponen[FirstRow(frm.komponen, "BPJS JHT")].amount
          = SumField(frm.employee_details, "bpjs_jht")
    /\ SumField(frm.employee_details, "bpjs_jht") = 4

---------------------------------------------------------------------------
(* PPh TER Table: period, month and year (pph_ter_table.js).  A new        *)
(* document: the check for a duplicate record is skipped while is_new().   *)
(* frm.set_value runs the handler of the field when it changes the value.  *)

month_names == <<"January", "February", "March", "April", "May", "June", "July",
                 "August", "September", "October", "November", "December">>

\* month_names.indexOf(period) + 1; 0 when the period is not in the list
month_index(p) ==
    IF \E i \in 1..Len(month_names) : month_names[i] = p
    THEN CHOOSE i \in 1..Len(month_names) : month_names[i] = p
    ELSE 0

PphPeriods == {"", "January", "December", "Januari"}
PphMonths == {0, 1, 12, 13}
PphYears == {2025, 2026}

RECURSIVE period_changed(_)
RECURSIVE month_changed(_)

\* PPh TER Table.period
period_changed(f) ==
    LET f1 == IF f.period # "" /\ month_index(f.period) # 0
                 /\ f.month # month_index(f.period)
              THEN month_changed([f EXCEPT !.month = month_index(f.period)])
              ELSE f
    IN IF f1.period # "" /\ f1.year # 0
       THEN [f1 EXCEPT !.month_year_title = <<f1.period, f1.year>>]
       ELSE f1

\* PPh TER Table.month
month_changed(f) ==
    IF f.month # 0 /\ f.month >= 1 /\ f.month <= 12
       /\ f.period # month_names[f.month]
    THEN period_changed([f EXCEPT !.period = month_names[f.month]])
    ELSE f

\* PPh TER Table.year
year_changed(f) ==
    IF f.period # "" /\ f.year # 0
    THEN [f EXCEPT !.month_year_title = <<f.period, f.year>>]
    ELSE f

\* PPh TER Table.onload of a new document opened in month m of year y
onload_pph(m, y) ==
    LET f == [NewPphForm(FALSE) EXCEPT !.period = month_names[m], !.year = y,
                                       !.month = m]
    IN [f EXCEPT !.month_year_title = <<f.period, f.year>>]

period_edit ==
    /\ \E p \in PphPeriods :
          /\ p # frm.period
          /\ frm' = period_changed([frm EXCEPT !.period = p])
    /\ lastOp' = "period"
    /\ UNCHANGED <<server, sess>>

month_edit ==
    /\ \E m \in PphMonths :
          /\ m # frm.month
          /\ frm' = month_changed([frm EXCEPT !.month = m])
    /\ lastOp' = "month"
    /\ UNCHANGED <<server, sess>>

year_edit ==
    /\ \E y \in PphYears :
          /\ y # frm.year
          /\ frm' = year_changed([frm EXCEPT !.year = y])
    /\ lastOp' = "year"
    /\ UNCHANGED <<server, sess>>

InitPeriod ==
    /\ \E m \in {1, 12}, y \in PphYears : frm = onload_pph(m, y)
    /\ lastOp = "init"
    /\ server = NoSettlement
    /\ sess = <<>>

NextPeriod == period_edit \/ month_edit \/ year_edit

SpecPeriod == InitPeriod /\ [][NextPeriod]_vars

\* C24: after any sequence of edits of period and month, a month outside
\* 1..12 and a period that is no English month name included, period is
\* the name of month and month_year_title is period followed by year.
C24_PeriodNamesMonth ==
    /\ frm.month \in 1..12
    /\ frm.period = month_names[frm.month]
    /\ frm.month_year_title = <<frm.period, frm.year>>

---------------------------------------------------------------------------
(* The supplier check of the PPh TER Table                                 *)

\* C25: on the PPh TER Table the server's generate_payment_entry starts
\* only for a session whose check for the supplier "Kantor Pajak" has
\* resolved with true; a check that resolves with false shows the message,
\* sends no call and changes no field of the document.
C25_PaymentOnlyAfterSupplierCheck ==
    [][server.doctype = "PPh TER Table" =>
          /\ \A s \in Sessions :
                /\ (sess'[s].call = "sent" /\ sess[s].call # "sent") =>
                      (sess[s].call = "exists" /\ sess'[s].supplier = "exists")
                /\ (sess'[s].call \in {"sent", "creating", "response"}) =>
                      sess'[s].supplier = "exists"
                /\ (sess'[s].supplier = "missing" /\ sess[s].supplier # "missing") =>
                      /\ sess'[s].msg = "supplier_missing"
                      /\ sess'[s].call = "none"
                      /\ sess'[s].docstatus = sess[s].docstatus
                      /\ sess'[s].payment_entry = sess[s].payment_entry
                      /\ server' = server /\ frm' = frm
          /\ server'.invoked # server.invoked =>
                \E s \in Sessions : sess[s].call = "sent" /\ sess[s].supplier = "exists"]_vars

\* the check resolved with false: the user is told and nothing was sent
C25_Witness ==
    /\ server.doctype = "PPh TER Table"
    /\ lastOp = "supplier_exists"
    /\ \E s \in Sessions : sess[s].supplier = "missing" /\ sess[s].msg = "supplier_missing"
    /\ \E s \in Sessions : sess[s].supplier = "exists" /\ sess[s].call = "sent"

---------------------------------------------------------------------------
(* PPh TER Table: the account details (pph_ter_table.js).  The row that    *)
(* calculate_total creates is the first row of the table as long as it is  *)
(* in the table: it is created only into an empty table.  The callback of  *)
(* the account lookup writes to that row object; once the user has removed *)
(* the row the write is not seen in the document.                          *)

BlankAccountDetail == [tax_category |-> "", amount |-> 0]

\* PPh TER Account Detail.account_details_add
account_details_add_pph ==
    /\ frm.account_details_set
    /\ Len(frm.account_details) < MaxAccounts
    /\ frm' = calculate_total_pph(
                 [frm EXCEPT !.account_details = Append(@, BlankAccountDetail)])
    /\ lastOp' = "account_details_add"
    /\ UNCHANGED <<server, sess>>

\* PPh TER Account Detail.account_details_remove
account_details_remove_pph ==
    /\ \E i \in 1..Len(frm.account_details) :
          frm' = calculate_total_pph(
                    [frm EXCEPT !.account_details = RemoveAt(@, i),
                                !.account_lookup = IF i = 1 THEN -1 ELSE @])
    /\ lastOp' = "account_details_remove"
    /\ UNCHANGED <<server, sess>>

(* A draft whose detail rows and account rows are edited by hand *)
InitTerAccount ==
    /\ \E loaded \in BOOLEAN : frm = NewPphForm(loaded)
    /\ lastOp = "init"
    /\ server = NoSettlement
    /\ sess = <<>>

NextTerAccount ==
    \/ details_add
    \/ details_amount
    \/ details_remove
    \/ account_details_add_pph
    \/ account_details_remove_pph
    \/ account_lookup_resolved

SpecTerAccount == InitTerAccount /\ [][NextTerAccount]_vars

\* the rows of the account details that calculate_total created
AutoRows(f) ==
    {i \in 1..Len(f.account_details) :
        f.account_details[i].tax_category = "PPh 21"}

\* C26: once no account lookup is pending, the "PPh 21" account row that
\* calculate_total created has the current total of the document as its
\* amount, whatever detail rows were added, removed or edited before.
C26_AccountRowCarriesTotal ==
    frm.account_lookup = -1 =>
        \A i \in AutoRows(frm) : frm.account_details[i].amount = frm.total

\* C27: the account details never hold more than one row created by
\* calculate_total, and calculate_total creates the row only into an empty
\* table, however its invocations and the lookup callbacks interleave.
C27_AtMostOneAutoRow ==
    [][/\ Cardinality(AutoRows(frm')) <= 1
       /\ (AutoRows(frm') # AutoRows(frm) /\ AutoRows(frm') # {}) =>
             /\ AutoRows(frm') = {1}
             /\ Len(frm'.account_details) = 1
             /\ \/ frm.account_details = <<>>
                \/ lastOp' = "account_details_remove" /\ Len(frm.account_details) = 1
       /\ (lastOp' = "account_lookup_resolved") =>
             Len(frm'.account_details) = Len(frm.account_details)]_vars

\* calculate_total ran twice while the lookup of the first run was pending
C27_Witness ==
    /\ lastOp = "details_amount"
    /\ frm.account_lookup >= 0
    /\ Len(frm.details) = 2
    /\ frm.total > frm.account_lookup
    /\ AutoRows(frm) = {1}

---------------------------------------------------------------------------
(* BPJS Settings (doctype/bpjs_settings/bpjs_settings.js).  Percentages    *)
(* are in tenths of a percent: 50 is 5%, 100 is 10%.                       *)

PercentFields ==
    {"kesehatan_employee_percent", "kesehatan_employer_percent",
     "jht_employee_percent", "jht_employer_percent", "jp_employee_percent",
     "jp_employer_percent", "jkk_percent", "jkm_percent"}

\* the max_value each field's handler passes to validate_percentage
max_value(field) ==
    IF field \in {"kesehatan_employer_percent", "jht_employer_percent"}
    THEN 100 ELSE 50

\* what the user types: -1%, 3%, 7%, 12%
PercentEntries == {-10, 30, 70, 120}

\* validate_percentage without the upper limit
validate_percentage_without_maximum(f, field, max) ==
    IF f.percent[field] < 0
    THEN [f EXCEPT !.percent[field] = 0, !.alert = "negative"]
    ELSE f

\* validate_percentage; the set_value runs the handler again on the new
\* value, which is in range and passes both tests
validate_percentage(f, field, max) ==
    IF f.percent[field] < 0
    THEN [f EXCEPT !.percent[field] = 0, !.alert = "negative"]
    ELSE IF f.percent[field] > max
    THEN [f EXCEPT !.percent[field] = max, !.alert = "maximum"]
    ELSE f

\* the handler of a percentage field after the user has typed a value
percent_edit ==
    /\ \E field \in PercentFields, v \in PercentEntries :
          /\ v # frm.percent[field]
          /\ frm' = validate_percentage(
                       [frm EXCEPT !.percent[field] = v, !.field = field,
                                   !.entered = v, !.alert = "none"],
                       field, max_value(field))
    /\ lastOp' = "percent"
    /\ UNCHANGED <<server, sess>>

InitSettings ==
    /\ frm = [percent |-> [k \in PercentFields |-> 0], field |-> "",
              entered |-> 0, alert |-> "none"]
    /\ lastOp = "init"
    /\ server = NoSettlement
    /\ sess = <<>>

NextSettings == percent_edit

SpecSettings == InitSettings /\ [][NextSettings]_vars

\* C30: after the handler of a percentage field has run, the field is in
\* [0, max] for its maximum (5% or 10%): 0 for a negative entry, the
\* maximum for an entry above it, the entry itself otherwise.
C30_PercentageWithinLimits ==
    lastOp = "percent" =>
        LET v == frm.percent[frm.field]
            max == max_value(frm.field)
        IN /\ v >= 0 /\ v <= max
           /\ max \in {50, 100}
           /\ frm.entered < 0 => v = 0
           /\ frm.entered > max => v = max
           /\ (frm.entered >= 0 /\ frm.entered <= max) => v = frm.entered

\* 7% typed into a field whose maximum is 5%
C30_Witness ==
    /\ lastOp = "percent"
    /\ frm.field = "jht_employee_percent"
    /\ frm.entered = 70
    /\ frm.percent["jht_employee_percent"] = 50
    /\ frm.percent["jht_employer_percent"] = 70
    /\ frm.percent["jkk_percent"] = 0

---------------------------------------------------------------------------
(* Cascades of field handlers, one handler step at a time.  sess.stack is  *)
(* the call stack of the handlers that one user edit has started, its top  *)
(* first; a set_value that changes the value puts the field's handler on   *)
(* top, and the handler that called it goes on when that one has returned. *)
(* The user edits only while no handler runs.  The forms are the PPh TER   *)
(* Table (period, month) and the BPJS Payment Summary of                   *)
(* doctype/bpjs_payment_summary/bpjs_payment_summary.js.                   *)

MaxDepth == 8

\* frappe.model.set_value runs the handler of the field when the value changes
set_value_fires(old, new) == old # new

Frame(fn, pc, total) == [fn |-> fn, pc |-> pc, total |-> total]

CascadeNames == <<"BPJS Kesehatan", "BPJS JHT", "BPJS JP", "BPJS JKK", "BPJS JKM">>

\* PPh TER Table.period: first the month, then the title
period_step(f, top, rest) ==
    IF top.pc = 1
    THEN IF f.period # "" /\ month_index(f.period) # 0
            /\ set_value_fires(f.month, month_index(f.period))
         THEN [frm |-> [f EXCEPT !.month = month_index(f.period)],
               stack |-> <<Frame("month", 1, 0), Frame("period", 2, 0)>> \o rest]
         ELSE [frm |-> f, stack |-> <<Frame("period", 2, 0)>> \o rest]
    ELSE [frm |-> year_changed(f), stack |-> rest]

\* PPh TER Table.month
month_step(f, top, rest) ==
    IF top.pc = 1 /\ f.month # 0 /\ f.month >= 1 /\ f.month <= 12
       /\ set_value_fires(f.period, month_names[f.month])
    THEN [frm |-> [f EXCEPT !.period = month_names[f.month]],
          stack |-> <<Frame("period", 1, 0), Frame("month", 2, 0)>> \o rest]
    ELSE [frm |-> f, stack |-> rest]

\* calculate_total of the BPJS Payment Summary: the sum is taken, then
\* calculate_employee_totals runs, then the sum is written to total
calculate_total_step(f, top, rest) ==
    IF top.pc = 1
    THEN [frm |-> f,
          stack |-> (IF f.employee_details_set
                     THEN <<Frame("calculate_employee_totals", 1, 0)>> ELSE <<>>)
                    \o <<Frame("calculate_total", 2, SumAmounts(f.komponen))>>
                    \o rest]
    ELSE [frm |-> [f EXCEPT !.total = top.total], stack |-> rest]

\* update_component_row that adds the amount to the one the row has
update_component_row_step_accumulating(f, stack, component_name, amount) ==
    LET i == FirstRow(f.komponen, component_name) IN
    IF i # 0
    THEN IF set_value_fires(f.komponen[i].amount, f.komponen[i].amount + amount)
         THEN [frm |-> [f EXCEPT !.komponen[i].amount = @ + amount],
               stack |-> <<Frame("calculate_total", 1, 0)>> \o stack]
         ELSE [frm |-> f, stack |-> stack]
    ELSE IF amount > 0
    THEN [frm |-> [f EXCEPT !.komponen =
                     Append(@, [component |-> component_name, amount |-> amount])],
          stack |-> stack]
    ELSE [frm |-> f, stack |-> stack]

\* update_component_row: the amount handler of the row goes on top of the
\* stack when set_value changes the amount
update_component_row_step(f, stack, component_name, amount) ==
    LET i == FirstRow(f.komponen, component_name) IN
    IF i # 0
    THEN IF set_value_fires(f.komponen[i].amount, amount)
         THEN [frm |-> [f EXCEPT !.komponen[i].amount = amount],
               stack |-> <<Frame("calculate_total", 1, 0)>> \o stack]
         ELSE [frm |-> f, stack |-> stack]
    ELSE IF amount > 0
    THEN [frm |-> [f EXCEPT !.komponen =
                     Append(@, [component |-> component_name, amount |-> amount])],
          stack |-> stack]
    ELSE [frm |-> f, stack |-> stack]

\* calculate_employee_totals: one update_component_row per step
calculate_employee_totals_step(f, top, rest) ==
    IF ~f.employee_details_set \/ ~f.komponen_set \/ top.pc > Len(CascadeNames)
    THEN [frm |-> f, stack |-> rest]
    ELSE update_component_row_step(
            f, <<Frame("calculate_employee_totals", top.pc + 1, 0)>> \o rest,
            CascadeNames[top.pc],
            SumField(f.employee_details, FigureOf(CascadeNames[top.pc])))

\* the handler on top of the stack takes its next step
StepTop(f, stack) ==
    LET top == Head(stack)
        rest == Tail(stack)
    IN IF top.fn = "period" THEN period_step(f, top, rest)
       ELSE IF top.fn = "month" THEN month_step(f, top, rest)
       ELSE IF top.fn = "calculate_total" THEN calculate_total_step(f, top, rest)
       ELSE calculate_employee_totals_step(f, top, rest)

handler_step ==
    /\ sess.stack # <<>>
    /\ Len(StepTop(frm, sess.stack).stack) <= MaxDepth
    /\ frm' = StepTop(frm, sess.stack).frm
    /\ sess' = [sess EXCEPT !.stack = StepTop(frm, sess.stack).stack]
    /\ lastOp' = "handler_step"
    /\ UNCHANGED server

\* the user edits period; the handler of the field starts
cascade_period ==
    /\ server.doctype = "PPh TER Table"
    /\ sess.stack = <<>>
    /\ \E p \in PphPeriods :
          /\ p # frm.period
          /\ frm' = [frm EXCEPT !.period = p]
    /\ sess' = [sess EXCEPT !.stack = <<Frame("period", 1, 0)>>]
    /\ lastOp' = "period"
    /\ UNCHANGED server

\* the user edits month
cascade_month ==
    /\ server.doctype = "PPh TER Table"
    /\ sess.stack = <<>>
    /\ \E m \in PphMonths :
          /\ m # frm.month
          /\ frm' = [frm EXCEPT !.month = m]
    /\ sess' = [sess EXCEPT !.stack = <<Frame("month", 1, 0)>>]
    /\ lastOp' = "month"
    /\ UNCHANGED server

\* the user edits the amount of a component row
cascade_komponen_amount ==
    /\ server.doctype = "BPJS Payment Summary"
    /\ sess.stack = <<>>
    /\ \E i \in 1..Len(frm.komponen), v \in KomponenAmounts :
          /\ v # frm.komponen[i].amount
          /\ frm' = [frm EXCEPT !.komponen[i].amount = v]
    /\ sess' = [sess EXCEPT !.stack = <<Frame("calculate_total", 1, 0)>>]
    /\ lastOp' = "komponen_amount"
    /\ UNCHANGED server

\* the user removes an employee row
cascade_employee_details_remove ==
    /\ server.doctype = "BPJS Payment Summary"
    /\ sess.stack = <<>>
    /\ \E i \in 1..Len(frm.employee_details) :
          frm' = [frm EXCEPT !.employee_details = RemoveAt(@, i)]
    /\ sess' = [sess EXCEPT !.stack = <<Frame("calculate_employee_totals", 1, 0)>>]
    /\ lastOp' = "employee_details_remove"
    /\ UNCHANGED server

\* the component tables and employee rows of a saved BPJS Payment Summary
CascadeKomponen ==
    UNION {[1..n -> {[component |-> c, amount |-> a] :
                        c \in {"BPJS JHT", "BPJS JP"}, a \in KomponenAmounts}] :
           n \in 0..MaxKomponen}

CascadeEmployees ==
    UNION {[1..n -> {[BlankEmployee_upsert EXCEPT !.bpjs_jht = a, !.bpjs_jp = 2] :
                        a \in EmployeeAmounts}] :
           n \in 0..MaxEmployees}

InitCascade ==
    /\ \/ /\ server = [NoSettlement EXCEPT !.doctype = "PPh TER Table"]
          /\ \E m \in {1, 12}, y \in PphYears : frm = onload_pph(m, y)
       \/ /\ server = [NoSettlement EXCEPT !.doctype = "BPJS Payment Summary"]
          /\ \E k \in CascadeKomponen, e \in CascadeEmployees :
                frm = [NewForm(FALSE) EXCEPT !.komponen = k, !.komponen_set = TRUE,
                                             !.employee_details = e,
                                             !.employee_details_set = TRUE]
    /\ lastOp = "init"
    /\ sess = [stack |-> <<>>]

NextCascade ==
    \/ cascade_period
    \/ cascade_month
    \/ cascade_komponen_amount
    \/ cascade_employee_details_remove
    \/ handler_step

SpecCascade == InitCascade /\ [][NextCascade]_vars

\* a handler that has started runs on until it returns
SpecCascadeFair == SpecCascade /\ WF_vars(handler_step)

\* C28: every cascade of handlers that one user edit starts comes to an end:
\* the stack of running handlers stays below MaxDepth and is empty again
\* after finitely many handler steps, for period <-> month on the PPh TER
\* Table and for amount -> calculate_total -> calculate_employee_totals ->
\* amount on the BPJS Payment Summary.
C28_CascadesTerminate ==
    /\ [](Len(sess.stack) < MaxDepth)
    /\ (sess.stack # <<>>) ~> (sess.stack = <<>>)

\* the amount handler runs inside a calculate_employee_totals that itself
\* runs inside the amount handler of the user's edit
C28_Witness ==
    /\ server.doctype = "BPJS Payment Summary"
    /\ Len(sess.stack) >= 4
    /\ Head(sess.stack).fn = "calculate_total"
    /\ sess.stack[Len(sess.stack)].fn = "calculate_total"

=============================================================================
